---- MODULE Spec2Model ----
(***************************************************************************)
(* EC-Earth4-Tools: the cached post-reader (osprey/actions/post_reader.py) *)
(* and its averaging engine, over the variable catalogue                    *)
(* (osprey/utils/vardict.py); the EOF projector (osprey/means/eof.py); the  *)
(* roll-back tool (martini/roll_back_ece4.py); the restart reader with its  *)
(* fallback rebuild (reader_restart in post_reader.py).                     *)
(*                                                                         *)
(* Python values are tagged records so that comparisons between values of   *)
(* different Python types (a dict against a str) are defined and false, as  *)
(* they are in Python.  A variable label "name-sub" is the sequence of its  *)
(* '-'-separated tokens.                                                    *)
(***************************************************************************)
EXTENDS Integers, Sequences, FiniteSets, TLC

\* ------------------------------------------------------------------------
\* Python values
\* ------------------------------------------------------------------------
None == [tag |-> "none"]
Unbound == [tag |-> "unbound"]
Str(s) == [tag |-> "str", val |-> s]
Err(t) == [tag |-> "error", type |-> t]
IsErr(v) == v.tag = "error"
IsDs(v) == v.tag = "ds"

\* a dataset held in memory is backed by no file
InMemory == <<>>

\* Python's  v == 'literal' : false when v is not a str
PyEqStr(v, s) == v.tag = "str" /\ v.val = s

\* ------------------------------------------------------------------------
\* Variable catalogue (vardict.py)
\* ------------------------------------------------------------------------
Names3D == {
    "e3t", "thetao", "so", "e3u", "uo", "uocetr_eff", "vozomatr", "e3v",
    "vo", "vocetr_eff", "vomematr", "e3w", "wo", "difvho", "vovematr",
    "av_wave", "bn2", "bflx_iwm", "emix_iwm", "av_ratio", "keoh", "keo",
    "rho", "woto"}

Names2D == {
    "tos", "sos", "zos", "sstdcy", "mldkz5", "mldr10_1", "mldr10_1dcy",
    "sbt", "heatc", "saltc", "wfo", "qsr_oce", "qns_oce", "qt_oce", "sfx",
    "taum", "windsp", "precip", "snowpre", "uos", "tauuo", "sozohetr",
    "sozosatr", "vos", "tauvo", "somehetr", "somesatr", "pcmap_iwm", "keos"}

CatalogueNames == Names3D \cup Names2D

\* vardict('nemo'): every entry is a descriptor dict with a 'dim' key
vardict == [n \in CatalogueNames |->
              [tag |-> "dict", dim |-> IF n \in Names3D THEN "3D" ELSE "2D"]]

\* ------------------------------------------------------------------------
\* Bounds
\* ------------------------------------------------------------------------
\* time steps the raw output holds per simulated year
StepsPerYear == 1
\* calls one caller issues in a behaviour
MaxCalls == 2
\* versions the raw output of an experiment goes through
MaxRawVer == 2

\* ------------------------------------------------------------------------
\* Gridded fields
\* ------------------------------------------------------------------------
\* time axis of the raw output for startyear..endyear: calendar dates
\* <<year, step>> in chronological order
TimeAxis(startyear, endyear) ==
    [i \in 1..((endyear - startyear + 1) * StepsPerYear) |->
        <<startyear + ((i - 1) \div StepsPerYear), 1 + ((i - 1) % StepsPerYear)>>]

\* named axes of data[varname] in the raw output
DataAxes(varname) ==
    IF vardict[varname].dim = "3D" THEN <<"time", "z", "y", "x">>
                                   ELSE <<"time", "y", "x">>

Reduce(axes, drop) == SelectSeq(axes, LAMBDA a : a \notin drop)

\* calendar dates -> decimal years, counted in 1/StepsPerYear of a year
get_decimal_year(dates) ==
    [i \in 1..Len(dates) |-> dates[i][1] * StepsPerYear + (dates[i][2] - 1)]

\* dimensionality a reduction is asked for: a '2D'/'3D' tag, or the
\* catalogue descriptor of the variable
DimOf(ndim) == IF ndim.tag = "str" THEN ndim.val ELSE ndim.dim

\* spacemean(data, varname, ndim, subregion): mean over the spatial axes of
\* the given dimensionality, restricted to subregion
spacemean(data, varname, ndim, subregion) ==
    [tag |-> "array",
     dims |-> Reduce(DataAxes(varname),
                     IF DimOf(ndim) = "3D" THEN {"z", "y", "x"} ELSE {"y", "x"}),
     region |-> subregion,
     src |-> data.src]

\* timemean(data, varname): mean over time
timemean(data, varname) ==
    [tag |-> "array",
     dims |-> Reduce(DataAxes(varname), {"time"}),
     region |-> None,
     src |-> data.src]

\* data[varname].weighted(area).mean(dim=['time','y','x'])
weighted_mean_tyx(data, varname) ==
    [tag |-> "array",
     dims |-> Reduce(DataAxes(varname), {"time", "y", "x"}),
     region |-> None,
     src |-> data.src]

\* xr.Dataset holding one data variable built by
\* xr.DataArray(data = vec, dims = dims, ...): the array must have exactly
\* the named dims, or the constructor raises ValueError
Dataset(descr, var, vec, dims, index, coords) ==
    IF vec.tag = "unbound" THEN Err("UnboundLocalError")
    ELSE IF vec.dims # dims THEN Err("ValueError")
    ELSE [tag |-> "ds", description |-> descr, var |-> var, dims |-> dims,
          index |-> index, coords |-> coords, region |-> vec.region,
          src |-> vec.src, backing |-> InMemory]

\* ------------------------------------------------------------------------
\* Averaging engine (post_reader.py, averaging)
\* ------------------------------------------------------------------------
\* varlabel.split('-', 1)
SplitVarname(varlabel) == Head(varlabel)
SplitSubregion(varlabel) ==
    IF Len(varlabel) > 1 THEN [tag |-> "str", val |-> Tail(varlabel)] ELSE None

\* a slip: the subregion is not handed to the spatial mean
TimeseriesDs_noSubregion(data, varlabel, varname, ndim, subregion) ==
    Dataset("ECE4/NEMO averaged timeseries data", varlabel,
            spacemean(data, varname, ndim, None),
            <<"time">>, get_decimal_year(data.time), {"time"})

TimeseriesDs(data, varlabel, varname, ndim, subregion) ==
    Dataset("ECE4/NEMO averaged timeseries data", varlabel,
            spacemean(data, varname, ndim, subregion),
            <<"time">>, get_decimal_year(data.time), {"time"})

ProfileDs(data, varlabel, varname, ndim, subregion) ==
    Dataset("ECE4/NEMO averaged profiles", <<varname>>,
            weighted_mean_tyx(data, varname),
            <<"z">>, <<>>, {"z"})

HovmollerDs(data, varlabel, varname, ndim, subregion) ==
    Dataset("ECE4/NEMO averaged hovmoller diagram", varlabel,
            spacemean(data, varname, Str("2D"), None),
            <<"time", "z">>, get_decimal_year(data.time), {"time", "z"})

MapDs(data, varlabel, varname, ndim, subregion) ==
    LET vec0 == Unbound
        vec1 == IF PyEqStr(ndim, "2D") THEN timemean(data, varname) ELSE vec0
        vec2 == IF PyEqStr(ndim, "3D") THEN spacemean(data, varname, ndim, None)
                                       ELSE vec1
    IN  Dataset("ECE4/NEMO averaged map", varlabel, vec2,
                <<"y", "x">>, <<>>, {"lat", "lon"})

Field3DDs(data, varlabel, varname, ndim, subregion) ==
    Dataset("ECE4/NEMO time-averaged field", varlabel,
            timemean(data, varname),
            <<"z", "y", "x">>, <<>>, {"lat", "lon", "z"})

Field2DDs(data, varlabel, varname, ndim, subregion) ==
    Dataset("ECE4/NEMO time-averaged field", varlabel,
            timemean(data, varname),
            <<"y", "x">>, <<>>, {"lat", "lon"})

\* the chain of if-statements of averaging, entered with the local name ds
\* holding ds0: each branch that matches rebinds ds; an exception in a
\* branch leaves at once; return ds with ds never bound raises
\* UnboundLocalError
averagingFrom(ds0, expname, data, varlabel, diagname) ==
    LET varname == SplitVarname(varlabel)
        subregion == SplitSubregion(varlabel)
    IN  IF varname \notin DOMAIN vardict THEN Err("KeyError")
        ELSE
        LET ndim == vardict[varname]
            ds1 == IF diagname = "timeseries"
                   THEN TimeseriesDs(data, varlabel, varname, ndim, subregion)
                   ELSE ds0
            ds2 == IF IsErr(ds1) THEN ds1
                   ELSE IF diagname = "profile" /\ PyEqStr(ndim, "3D")
                   THEN ProfileDs(data, varlabel, varname, ndim, subregion)
                   ELSE ds1
            ds3 == IF IsErr(ds2) THEN ds2
                   ELSE IF diagname = "hovmoller" /\ PyEqStr(ndim, "3D")
                   THEN HovmollerDs(data, varlabel, varname, ndim, subregion)
                   ELSE ds2
            ds4 == IF IsErr(ds3) THEN ds3
                   ELSE IF diagname = "map"
                   THEN MapDs(data, varlabel, varname, ndim, subregion)
                   ELSE ds3
            ds5 == IF IsErr(ds4) THEN ds4
                   ELSE IF diagname = "field" /\ PyEqStr(ndim, "3D")
                   THEN Field3DDs(data, varlabel, varname, ndim, subregion)
                   ELSE ds4
            ds6 == IF IsErr(ds5) THEN ds5
                   ELSE IF diagname = "field" /\ PyEqStr(ndim, "2D")
                   THEN Field2DDs(data, varlabel, varname, ndim, subregion)
                   ELSE ds5
        IN  IF ds6.tag = "unbound" THEN Err("UnboundLocalError") ELSE ds6


\* a slip: ds preset to an empty dataset ahead of the branches
averaging_emptyDefault(expname, data, varlabel, diagname) ==
    averagingFrom([tag |-> "ds", description |-> "", var |-> <<>>, dims |-> <<>>,
                   index |-> <<>>, coords |-> {}, region |-> None,
                   src |-> data.src, backing |-> InMemory],
                  expname, data, varlabel, diagname)

\* averaging: no name is bound before the branches
averaging(expname, data, varlabel, diagname) ==
    averagingFrom(Unbound, expname, data, varlabel, diagname)

\* ------------------------------------------------------------------------
\* Inputs
\* ------------------------------------------------------------------------
Procs == {1, 2}
Exps == {"X1"}
RefExps == {"R0", "R1"}
AllExps == Exps \cup RefExps
YearRanges == {<<1990, 1991>>}
\* a 3D variable and a 2D variable with a subregion
Varlabels == {<<"thetao">>, <<"tos", "NH">>}
DiagKinds == {"timeseries", "profile", "hovmoller", "map", "field"}
Diagnames == DiagKinds \cup {"pdf"}
\* kinds asked for in sequences of calls: one the engine reduces over space,
\* one defined for 3D variables only, and the kind of the reference products
SeqDiagnames == {"timeseries", "profile", "field"}
Metrics == {"base", "diff"}

\* labels the averaging engine is tried on: every catalogue name, bare and
\* with a subregion
AvVarlabels == {<<n>> : n \in CatalogueNames}
               \cup {<<n, "NH">> : n \in CatalogueNames}
               \cup {<<"thetao", "NH", "E">>, <<"nosuchvar">>}

CallArgs ==
    [expname : Exps, startyear : {r[1] : r \in YearRanges},
     endyear : {r[2] : r \in YearRanges}, varlabel : Varlabels,
     diagname : SeqDiagnames, replace : BOOLEAN, metrics : Metrics]

NoArgs ==
    [expname |-> "", startyear |-> 0, endyear |-> 0, varlabel |-> <<"">>,
     diagname |-> "", replace |-> FALSE, metrics |-> ""]

\* meanfield.yaml in dirs['osprey']: absent, without the 'meanfield' key, or
\* naming the reference experiment and its year range
ConfigMissing == [tag |-> "missing"]
ConfigNoKey == [tag |-> "yaml", meanfield |-> FALSE]
RefConfig(e, y0, y1) ==
    [tag |-> "yaml", meanfield |-> TRUE, expname |-> e,
     startyear |-> y0, endyear |-> y1]
\* the reference a run is set up with, another reference experiment, and
\* another year range of the first
Configs ==
    {ConfigMissing} \cup {RefConfig(e, 1990, 1990) : e \in RefExps}
    \cup {RefConfig("R0", 1990, 1991)}
WideConfigs == Configs \cup {ConfigNoKey}

WideArgs ==
    [expname : Exps, startyear : {r[1] : r \in YearRanges},
     endyear : {r[2] : r \in YearRanges}, varlabel : AvVarlabels,
     diagname : Diagnames, replace : BOOLEAN, metrics : Metrics]

NoAvArgs == [expname |-> "", data |-> [tag |-> "none"], varlabel |-> <<"">>, diagname |-> ""]

VARIABLES
    files,      \* the permanent archives: path -> stored product, for the files that exist
    permdirs,   \* experiments whose permanent-archive directory exists
    raw,        \* version of each experiment's raw output, 0 when there is none
    config,     \* meanfield.yaml
    pc,         \* position of each caller inside postreader_averaged
    args,       \* arguments of the call in progress
    xdata,      \* local xdata
    ds,         \* local ds
    ret,        \* value returned or exception raised by the call
    log,        \* operations the call in progress has invoked, in order
    snap,       \* files and permdirs as they were when the call started
    ncalls,     \* calls completed by each caller
    last,       \* arguments, outcome and log of the caller's previous call
    avArgs,     \* arguments of a direct call of averaging
    avOut       \* its outcome

\* a call of project_eofs (osprey/means/eof.py)
VARIABLES
    eofFs,      \* the scratch directories: path -> file, for the files that exist
    eofArgs,    \* arguments of the call
    eofOut,     \* field returned or exception raised
    eofLog,     \* operations the call invoked, in order
    eofSnap     \* eofFs as it was when the call started

\* a run of the roll-back tool (martini/roll_back_ece4.py)
VARIABLES
    rbFs,       \* the run directory: path -> entry, for the entries that exist
    rbArgs,     \* command line
    rbOut,      \* how the run ended
    rbLog,      \* operations the run invoked, in order
    rbSnap      \* rbFs as it was when the run started

\* a call of reader_restart (osprey/actions/post_reader.py)
VARIABLES
    rsFs,       \* the restart folders: leg -> what the folder of that leg holds
    rsArgs,     \* arguments of the call
    rsPc,       \* position inside reader_restart
    rsLeg,      \* loop variable leg
    rsOut,      \* data returned or exception raised
    rsLog       \* operations the call invoked, in order

prVars == <<files, permdirs, raw, config, pc, args, xdata, ds, ret, log, snap, ncalls, last>>
avVars == <<avArgs, avOut>>
eofVars == <<eofFs, eofArgs, eofOut, eofLog, eofSnap>>
rbVars == <<rbFs, rbArgs, rbOut, rbLog, rbSnap>>
rsVars == <<rsFs, rsArgs, rsPc, rsLeg, rsOut, rsLog>>
vars == <<prVars, avVars, eofVars, rbVars, rsVars>>

NoEofArgs ==
    [expname |-> "", varname |-> "", endleg |-> 0, yearspan |-> 0,
     yearleap |-> 0, mode |-> ""]
NoRbArgs == [expname |-> "", leg |-> 0, rerun |-> FALSE, backup |-> FALSE]

\* no call of project_eofs is under way
EofIdle ==
    /\ eofFs = <<>>
    /\ eofArgs = NoEofArgs
    /\ eofOut = Unbound
    /\ eofLog = <<>>
    /\ eofSnap = <<>>

\* the roll-back tool is not run
RbIdle ==
    /\ rbFs = <<>>
    /\ rbArgs = NoRbArgs
    /\ rbOut = Unbound
    /\ rbLog = <<>>
    /\ rbSnap = <<>>

\* reader_restart is not called
RsIdle ==
    /\ rsFs = <<>>
    /\ rsArgs = [expname |-> "", startyear |-> 0, endyear |-> 0]
    /\ rsPc = "idle"
    /\ rsLeg = 0
    /\ rsOut = Unbound
    /\ rsLog = <<>>

\* ------------------------------------------------------------------------
\* Readers and writers (post_reader.py)
\* ------------------------------------------------------------------------
Ev(op, what) == [op |-> op, what |-> what]

\* folders(expname)['perm']
PermDir(expname) == expname

\* a slip: the metric tag left out of the name (always 'base')
ReaderFilename_noMetrics(expname, startyear, endyear, varlabel, diagname, metrics) ==
    <<PermDir(expname), diagname, varlabel, "base", startyear, endyear>>

\* a slip the other way: the reference meanfield.yaml names made part of
\* the name of a combined product
ReaderFilename_withReference(expname, startyear, endyear, varlabel, diagname, metrics) ==
    IF metrics = "base"
    THEN <<PermDir(expname), diagname, varlabel, metrics, startyear, endyear>>
    ELSE <<PermDir(expname), diagname, varlabel, metrics, startyear, endyear, config>>
\* reader_averaged: the file name it opens
ReaderFilename(expname, startyear, endyear, varlabel, diagname, metrics) ==
    <<PermDir(expname), diagname, varlabel, metrics, startyear, endyear>>

\* postreader_averaged: the file name it writes
WriterFilename(expname, startyear, endyear, varlabel, diagname, metrics) ==
    <<PermDir(expname), diagname, varlabel, metrics, startyear, endyear>>

\* ds.to_netcdf(filename): what the file holds
to_netcdf(d) ==
    [tag |-> "nc", description |-> d.description, var |-> d.var,
     dims |-> d.dims, index |-> d.index, coords |-> d.coords,
     region |-> d.region, src |-> d.src]

\* xr.open_dataset(filename): a dataset backed by the file
open_dataset(fs, filename) ==
    IF filename \notin DOMAIN fs THEN Err("FileNotFoundError")
    ELSE LET f == fs[filename]
         IN  [tag |-> "ds", description |-> f.description, var |-> f.var,
              dims |-> f.dims, index |-> f.index, coords |-> f.coords,
              region |-> f.region, src |-> f.src, backing |-> filename]

reader_averaged(fs, expname, startyear, endyear, varlabel, diagname, metrics) ==
    open_dataset(fs, ReaderFilename(expname, startyear, endyear, varlabel,
                                    diagname, metrics))

\* reader_nemo(expname, startyear, endyear): the raw output of the year
\* range, FileNotFoundError when the experiment has none
reader_nemo(rw, expname, startyear, endyear) ==
    IF rw[expname] = 0 THEN Err("FileNotFoundError")
    ELSE [tag |-> "data",
          src |-> [exp |-> expname, ver |-> rw[expname], startyear |-> startyear,
                   endyear |-> endyear, comb |-> <<>>],
          time |-> TimeAxis(startyear, endyear)]

\* arguments of the direct calls of averaging
AvArgs ==
    [expname : Exps,
     data : {reader_nemo([e \in AllExps |-> 1], x, r[1], r[2]) : x \in Exps, r \in YearRanges},
     varlabel : AvVarlabels, diagname : Diagnames]

\* cost(xdata, mdata, metrics): the raw field combined with the reference
cost(xd, mdata, metrics) ==
    [xd EXCEPT !.src.comb = <<metrics, mdata.src.exp, mdata.src.ver,
                              mdata.src.startyear, mdata.src.endyear>>]

\* remove_existing_file(filename)
remove_existing_file(fs, filename) ==
    [f \in DOMAIN fs \ {filename} |-> fs[f]]

\* the file after ds.to_netcdf(filename)
WriteFile(fs, filename, d) ==
    [f \in DOMAIN fs \cup {filename} |-> IF f = filename THEN to_netcdf(d) ELSE fs[f]]

\* a reference product left in the archive of a reference experiment by an
\* earlier run: the time-averaged field of the variable
RefProduct(e, varlabel, y0, y1) ==
    [tag |-> "nc", description |-> "ECE4/NEMO time-averaged field",
     var |-> varlabel,
     dims |-> Reduce(DataAxes(SplitVarname(varlabel)), {"time"}),
     index |-> <<>>,
     coords |-> IF vardict[SplitVarname(varlabel)].dim = "3D"
                THEN {"lat", "lon", "z"} ELSE {"lat", "lon"},
     region |-> None,
     src |-> [exp |-> e, ver |-> 1, startyear |-> y0, endyear |-> y1,
              comb |-> <<>>]]

RefPaths(labels) ==
    {ReaderFilename("R0", 1990, 1990, v, "field", "base") :
        v \in {w \in labels : SplitVarname(w) \in CatalogueNames}}

\* ------------------------------------------------------------------------
\* postreader_averaged, one action per step
\* ------------------------------------------------------------------------
Target(a) ==
    WriterFilename(a.expname, a.startyear, a.endyear, a.varlabel,
                   a.diagname, a.metrics)

Raise(p, e) ==
    /\ ret' = [ret EXCEPT ![p] = e]
    /\ pc' = [pc EXCEPT ![p] = "done"]

\* entry, with arguments drawn from A: split the label and look the variable
\* up in the catalogue
CallFrom(p, A) ==
    /\ pc[p] = "idle"
    /\ avOut = Unbound
    /\ \E a \in A :
         /\ args' = [args EXCEPT ![p] = a]
         /\ log' = [log EXCEPT ![p] = <<>>]
         /\ snap' = [snap EXCEPT ![p] = [files |-> files, permdirs |-> permdirs]]
         /\ IF SplitVarname(a.varlabel) \notin DOMAIN vardict
            THEN Raise(p, Err("KeyError"))
            ELSE /\ pc' = [pc EXCEPT ![p] = "probe"]
                 /\ ret' = [ret EXCEPT ![p] = Unbound]
    /\ UNCHANGED <<files, permdirs, raw, config, xdata, ds, ncalls, last, avVars, eofVars, rbVars, rsVars>>

Call(p) ==
    /\ ncalls[p] < MaxCalls
    /\ CallFrom(p, CallArgs)

\* a single call on any label of the catalogue
CallWide(p) ==
    /\ ncalls[p] = 0
    /\ CallFrom(p, WideArgs)

\* a slip: the cache is tried whatever replace says
Probe_ignoreReplace(p) ==
    /\ pc[p] = "probe"
    /\ LET a == args[p]
           data == reader_averaged(files, a.expname, a.startyear, a.endyear,
                                   a.varlabel, a.diagname, a.metrics)
       IN  IF TRUE
           THEN /\ log' = [log EXCEPT ![p] = Append(@, Ev("reader_averaged",
                              ReaderFilename(a.expname, a.startyear, a.endyear,
                                             a.varlabel, a.diagname, a.metrics)))]
                /\ IF IsErr(data)
                   THEN /\ pc' = [pc EXCEPT ![p] = "read_raw"]
                        /\ ret' = ret
                   ELSE /\ pc' = [pc EXCEPT ![p] = "done"]
                        /\ ret' = [ret EXCEPT ![p] = data]
           ELSE /\ pc' = [pc EXCEPT ![p] = "read_raw"]
                /\ UNCHANGED <<log, ret>>
    /\ UNCHANGED <<files, permdirs, raw, config, args, xdata, ds, snap, ncalls, last, avVars, eofVars, rbVars, rsVars>>

\* a slip: the averaged data found is not returned
Probe_noReturn(p) ==
    /\ pc[p] = "probe"
    /\ LET a == args[p]
           data == reader_averaged(files, a.expname, a.startyear, a.endyear,
                                   a.varlabel, a.diagname, a.metrics)
       IN  IF a.replace = FALSE
           THEN /\ log' = [log EXCEPT ![p] = Append(@, Ev("reader_averaged",
                              ReaderFilename(a.expname, a.startyear, a.endyear,
                                             a.varlabel, a.diagname, a.metrics)))]
                /\ IF IsErr(data)
                   THEN /\ pc' = [pc EXCEPT ![p] = "read_raw"]
                        /\ ret' = ret
                   ELSE /\ pc' = [pc EXCEPT ![p] = "read_raw"]
                        /\ ret' = ret
           ELSE /\ pc' = [pc EXCEPT ![p] = "read_raw"]
                /\ UNCHANGED <<log, ret>>
    /\ UNCHANGED <<files, permdirs, raw, config, args, xdata, ds, snap, ncalls, last, avVars, eofVars, rbVars, rsVars>>

\* try to read averaged data
Probe(p) ==
    /\ pc[p] = "probe"
    /\ LET a == args[p]
           data == reader_averaged(files, a.expname, a.startyear, a.endyear,
                                   a.varlabel, a.diagname, a.metrics)
       IN  IF a.replace = FALSE
           THEN /\ log' = [log EXCEPT ![p] = Append(@, Ev("reader_averaged",
                              ReaderFilename(a.expname, a.startyear, a.endyear,
                                             a.varlabel, a.diagname, a.metrics)))]
                /\ IF IsErr(data)
                   THEN /\ pc' = [pc EXCEPT ![p] = "read_raw"]
                        /\ ret' = ret
                   ELSE /\ pc' = [pc EXCEPT ![p] = "done"]
                        /\ ret' = [ret EXCEPT ![p] = data]
           ELSE /\ pc' = [pc EXCEPT ![p] = "read_raw"]
                /\ UNCHANGED <<log, ret>>
    /\ UNCHANGED <<files, permdirs, raw, config, args, xdata, ds, snap, ncalls, last, avVars, eofVars, rbVars, rsVars>>

\* a slip: with replace the stale file is removed before the raw read
ReadRaw_removeFirst(p) ==
    /\ pc[p] = "read_raw"
    /\ LET a == args[p]
           xd == reader_nemo(raw, a.expname, a.startyear, a.endyear)
       IN  /\ log' = [log EXCEPT ![p] = Append(@, Ev("reader_nemo",
                              <<a.expname, a.startyear, a.endyear>>))]
           /\ IF IsErr(xd)
              THEN /\ Raise(p, xd)
                   /\ xdata' = xdata
              ELSE /\ xdata' = [xdata EXCEPT ![p] = xd]
                   /\ pc' = [pc EXCEPT ![p] = IF a.metrics # "base" THEN "reference"
                                                                     ELSE "averaging"]
                   /\ ret' = ret
    /\ files' = IF args[p].replace = TRUE
                THEN remove_existing_file(files, Target(args[p])) ELSE files
    /\ UNCHANGED <<permdirs, raw, config, args, ds, snap, ncalls, last, avVars, eofVars, rbVars, rsVars>>

\* read original data
ReadRaw(p) ==
    /\ pc[p] = "read_raw"
    /\ LET a == args[p]
           xd == reader_nemo(raw, a.expname, a.startyear, a.endyear)
       IN  /\ log' = [log EXCEPT ![p] = Append(@, Ev("reader_nemo",
                              <<a.expname, a.startyear, a.endyear>>))]
           /\ IF IsErr(xd)
              THEN /\ Raise(p, xd)
                   /\ xdata' = xdata
              ELSE /\ xdata' = [xdata EXCEPT ![p] = xd]
                   /\ pc' = [pc EXCEPT ![p] = IF a.metrics # "base" THEN "reference"
                                                                     ELSE "averaging"]
                   /\ ret' = ret
    /\ UNCHANGED <<files, permdirs, raw, config, args, ds, snap, ncalls, last, avVars, eofVars, rbVars, rsVars>>

\* a slip: a reference product that is not found is passed over and the
\* raw field goes on uncombined
Reference_fallthrough(p) ==
    /\ pc[p] = "reference"
    /\ LET a == args[p]
           mdata == reader_averaged(files, config.expname, config.startyear,
                                    config.endyear, a.varlabel, "field", "base")
       IN  IF config.tag = "missing"
           THEN /\ Raise(p, Err("FileNotFoundError"))
                /\ log' = [log EXCEPT ![p] = Append(@, Ev("open_yaml", <<>>))]
                /\ xdata' = xdata
           ELSE IF ~config.meanfield
           THEN /\ Raise(p, Err("UnboundLocalError"))
                /\ log' = [log EXCEPT ![p] = Append(@, Ev("open_yaml", <<>>))]
                /\ xdata' = xdata
           ELSE IF IsErr(mdata)
           THEN /\ pc' = [pc EXCEPT ![p] = "averaging"]
                /\ ret' = ret
                /\ log' = [log EXCEPT ![p] = @ \o <<Ev("open_yaml", <<>>),
                              Ev("reader_averaged",
                                 ReaderFilename(config.expname, config.startyear,
                                     config.endyear, a.varlabel, "field", "base"))>>]
                /\ xdata' = xdata
           ELSE /\ xdata' = [xdata EXCEPT ![p] = cost(@, mdata, a.metrics)]
                /\ log' = [log EXCEPT ![p] = @ \o <<Ev("open_yaml", <<>>),
                              Ev("reader_averaged",
                                 ReaderFilename(config.expname, config.startyear,
                                     config.endyear, a.varlabel, "field", "base")),
                              Ev("cost", <<>>)>>]
                /\ pc' = [pc EXCEPT ![p] = "averaging"]
                /\ ret' = ret
    /\ UNCHANGED <<files, permdirs, raw, config, args, ds, snap, ncalls, last, avVars, eofVars, rbVars, rsVars>>

\* metrics != 'base': read meanfield.yaml, load the reference product and
\* combine
Reference(p) ==
    /\ pc[p] = "reference"
    /\ LET a == args[p]
           mdata == reader_averaged(files, config.expname, config.startyear,
                                    config.endyear, a.varlabel, "field", "base")
       IN  IF config.tag = "missing"
           THEN /\ Raise(p, Err("FileNotFoundError"))
                /\ log' = [log EXCEPT ![p] = Append(@, Ev("open_yaml", <<>>))]
                /\ xdata' = xdata
           ELSE IF ~config.meanfield
           THEN /\ Raise(p, Err("UnboundLocalError"))
                /\ log' = [log EXCEPT ![p] = Append(@, Ev("open_yaml", <<>>))]
                /\ xdata' = xdata
           ELSE IF IsErr(mdata)
           THEN /\ Raise(p, mdata)
                /\ log' = [log EXCEPT ![p] = @ \o <<Ev("open_yaml", <<>>),
                              Ev("reader_averaged",
                                 ReaderFilename(config.expname, config.startyear,
                                     config.endyear, a.varlabel, "field", "base"))>>]
                /\ xdata' = xdata
           ELSE /\ xdata' = [xdata EXCEPT ![p] = cost(@, mdata, a.metrics)]
                /\ log' = [log EXCEPT ![p] = @ \o <<Ev("open_yaml", <<>>),
                              Ev("reader_averaged",
                                 ReaderFilename(config.expname, config.startyear,
                                     config.endyear, a.varlabel, "field", "base")),
                              Ev("cost", <<>>)>>]
                /\ pc' = [pc EXCEPT ![p] = "averaging"]
                /\ ret' = ret
    /\ UNCHANGED <<files, permdirs, raw, config, args, ds, snap, ncalls, last, avVars, eofVars, rbVars, rsVars>>

\* ds = averaging(expname, xdata, varlabel, diagname)
Averaging(p) ==
    /\ pc[p] = "averaging"
    /\ LET a == args[p]
           d == averaging(a.expname, xdata[p], a.varlabel, a.diagname)
       IN  /\ log' = [log EXCEPT ![p] = Append(@, Ev("averaging", <<>>))]
           /\ IF IsErr(d)
              THEN /\ Raise(p, d)
                   /\ ds' = ds
              ELSE /\ ds' = [ds EXCEPT ![p] = d]
                   /\ pc' = [pc EXCEPT ![p] = "makedirs"]
                   /\ ret' = ret
    /\ UNCHANGED <<files, permdirs, raw, config, args, xdata, snap, ncalls, last, avVars, eofVars, rbVars, rsVars>>

\* os.makedirs(dirs['perm'], exist_ok=True)
MakeDirs(p) ==
    /\ pc[p] = "makedirs"
    /\ permdirs' = permdirs \cup {PermDir(args[p].expname)}
    /\ log' = [log EXCEPT ![p] = Append(@, Ev("makedirs", PermDir(args[p].expname)))]
    /\ pc' = [pc EXCEPT ![p] = IF args[p].replace = TRUE THEN "remove" ELSE "write"]
    /\ UNCHANGED <<files, raw, config, args, xdata, ds, ret, snap, ncalls, last, avVars, eofVars, rbVars, rsVars>>

\* a slip: with replace the whole archive directory is emptied
Remove_wholeDir(p) ==
    /\ pc[p] = "remove"
    /\ files' = [f \in {g \in DOMAIN files : g[1] # PermDir(args[p].expname)} |-> files[f]]
    /\ log' = [log EXCEPT ![p] = Append(@, Ev("remove", Target(args[p])))]
    /\ pc' = [pc EXCEPT ![p] = "write"]
    /\ UNCHANGED <<permdirs, raw, config, args, xdata, ds, ret, snap, ncalls, last, avVars, eofVars, rbVars, rsVars>>

\* if replace == True: remove_existing_file(filename)
Remove(p) ==
    /\ pc[p] = "remove"
    /\ files' = remove_existing_file(files, Target(args[p]))
    /\ log' = [log EXCEPT ![p] = Append(@, Ev("remove", Target(args[p])))]
    /\ pc' = [pc EXCEPT ![p] = "write"]
    /\ UNCHANGED <<permdirs, raw, config, args, xdata, ds, ret, snap, ncalls, last, avVars, eofVars, rbVars, rsVars>>

\* ds.to_netcdf(filename)
Write(p) ==
    /\ pc[p] = "write"
    /\ IF PermDir(args[p].expname) \in permdirs
       THEN /\ files' = WriteFile(files, Target(args[p]), ds[p])
            /\ pc' = [pc EXCEPT ![p] = "reload"]
            /\ ret' = ret
       ELSE /\ Raise(p, Err("FileNotFoundError"))
            /\ files' = files
    /\ log' = [log EXCEPT ![p] = Append(@, Ev("to_netcdf", Target(args[p])))]
    /\ UNCHANGED <<permdirs, raw, config, args, xdata, ds, snap, ncalls, last, avVars, eofVars, rbVars, rsVars>>

\* a slip: the dataset in memory is returned, the file is not read back
Reload_returnsDs(p) ==
    /\ pc[p] = "reload"
    /\ LET a == args[p]
           data == reader_averaged(files, a.expname, a.startyear, a.endyear,
                                   a.varlabel, a.diagname, a.metrics)
       IN  /\ log' = [log EXCEPT ![p] = Append(@, Ev("reader_averaged",
                              ReaderFilename(a.expname, a.startyear, a.endyear,
                                             a.varlabel, a.diagname, a.metrics)))]
           /\ Raise(p, ds[p])
    /\ UNCHANGED <<files, permdirs, raw, config, args, xdata, ds, snap, ncalls, last, avVars, eofVars, rbVars, rsVars>>

\* Now you can read
Reload(p) ==
    /\ pc[p] = "reload"
    /\ LET a == args[p]
           data == reader_averaged(files, a.expname, a.startyear, a.endyear,
                                   a.varlabel, a.diagname, a.metrics)
       IN  /\ log' = [log EXCEPT ![p] = Append(@, Ev("reader_averaged",
                              ReaderFilename(a.expname, a.startyear, a.endyear,
                                             a.varlabel, a.diagname, a.metrics)))]
           /\ Raise(p, data)
    /\ UNCHANGED <<files, permdirs, raw, config, args, xdata, ds, snap, ncalls, last, avVars, eofVars, rbVars, rsVars>>

NoData == [tag |-> "none"]
NoSnap == [files |-> <<>>, permdirs |-> {}]

\* the call is over: the caller has its product or its exception
Return(p) ==
    /\ pc[p] = "done"
    /\ pc' = [pc EXCEPT ![p] = "idle"]
    /\ ncalls' = [ncalls EXCEPT ![p] = @ + 1]
    /\ last' = [last EXCEPT ![p] = [args |-> args[p], ret |-> ret[p]]]
    /\ args' = [args EXCEPT ![p] = NoArgs]
    /\ xdata' = [xdata EXCEPT ![p] = NoData]
    /\ ds' = [ds EXCEPT ![p] = NoData]
    /\ ret' = [ret EXCEPT ![p] = Unbound]
    /\ log' = [log EXCEPT ![p] = <<>>]
    /\ snap' = [snap EXCEPT ![p] = NoSnap]
    /\ UNCHANGED <<files, permdirs, raw, config, avVars, eofVars, rbVars, rsVars>>

Quiet == \A p \in Procs : pc[p] = "idle"

\* between calls, the raw output of an experiment is written, rewritten or
\* cleaned away
RawChange ==
    /\ Quiet
    /\ \E e \in Exps, v \in 0..MaxRawVer :
         /\ v # raw[e]
         /\ raw' = [raw EXCEPT ![e] = v]
    /\ UNCHANGED <<files, permdirs, config, pc, args, xdata, ds, ret, log, snap, ncalls, last, avVars, eofVars, rbVars, rsVars>>

\* between calls, meanfield.yaml is edited
ConfigChange ==
    /\ Quiet
    /\ \E c \in Configs :
         /\ c # config
         /\ config' = c
    /\ UNCHANGED <<files, permdirs, raw, pc, args, xdata, ds, ret, log, snap, ncalls, last, avVars, eofVars, rbVars, rsVars>>

\* a direct call of averaging on raw data
AvCall ==
    /\ Quiet
    /\ ncalls[1] = 0
    /\ avOut = Unbound
    /\ \E a \in AvArgs :
         /\ avArgs' = a
         /\ avOut' = averaging(a.expname, a.data, a.varlabel, a.diagname)
    /\ UNCHANGED <<prVars, eofVars, rbVars, rsVars>>

\* the archive of reference experiment R0 holds its reference products for
\* the given labels or none; the experiment's own archive does not exist yet
InitWith(labels, configs) ==
    /\ \E rp \in {{}, RefPaths(labels)} :
         /\ files = [f \in rp |-> RefProduct(f[1], f[3], f[5], f[6])]
         /\ permdirs = IF rp = {} THEN {} ELSE {PermDir("R0")}
    /\ config \in configs
    /\ raw \in {[e \in AllExps |-> IF e \in RefExps THEN 1 ELSE v] : v \in 0..1}
    /\ pc = [p \in Procs |-> "idle"]
    /\ args = [p \in Procs |-> NoArgs]
    /\ xdata = [p \in Procs |-> NoData]
    /\ ds = [p \in Procs |-> NoData]
    /\ ret = [p \in Procs |-> Unbound]
    /\ log = [p \in Procs |-> <<>>]
    /\ snap = [p \in Procs |-> NoSnap]
    /\ ncalls = [p \in Procs |-> 0]
    /\ last = [p \in Procs |-> [args |-> NoArgs, ret |-> Unbound]]
    /\ avArgs = NoAvArgs
    /\ avOut = Unbound
    /\ EofIdle
    /\ RbIdle
    /\ RsIdle

Init == InitWith(Varlabels, Configs)

InitWide == InitWith(AvVarlabels, WideConfigs)

\* one caller at a time
Next ==
    \/ Call(1)
    \/ Probe(1)
    \/ ReadRaw(1)
    \/ Reference(1)
    \/ Averaging(1)
    \/ MakeDirs(1)
    \/ Remove(1)
    \/ Write(1)
    \/ Reload(1)
    \/ Return(1)
    \/ RawChange
    \/ ConfigChange

Spec == Init /\ [][Next]_vars

\* one operation, on any label of the catalogue
NextWide ==
    \/ CallWide(1)
    \/ Probe(1)
    \/ ReadRaw(1)
    \/ Reference(1)
    \/ Averaging(1)
    \/ MakeDirs(1)
    \/ Remove(1)
    \/ Write(1)
    \/ Reload(1)
    \/ Return(1)
    \/ AvCall

SpecWide == InitWide /\ [][NextWide]_vars

\* ------------------------------------------------------------------------
\* Properties of the cached post-reader
\* ------------------------------------------------------------------------
Ops(l) == [i \in 1..Len(l) |-> l[i].op]
Count(l, op) == Cardinality({i \in 1..Len(l) : l[i].op = op})
Has(l, op) == \E i \in 1..Len(l) : l[i].op = op

\* the call of caller 1 is over
Done == pc[1] = "done"
\* the file the call is about existed when the call started
Cached == Target(args[1]) \in DOMAIN snap[1].files
\* the call cannot be answered from the cache
PastProbe == args[1].replace = TRUE \/ ~Cached
\* the reference product meanfield.yaml points to
RefTarget ==
    ReaderFilename(config.expname, config.startyear, config.endyear,
                   args[1].varlabel, "field", "base")
RefConfigured == config.tag = "yaml" /\ config.meanfield

\* the operations of a call that computes and persists, in order
PipelineOps(a) ==
    <<"reader_nemo">>
    \o (IF a.metrics # "base" THEN <<"open_yaml", "reader_averaged", "cost">> ELSE <<>>)
    \o <<"averaging", "makedirs">>
    \o (IF a.replace = TRUE THEN <<"remove">> ELSE <<>>)
    \o <<"to_netcdf", "reader_averaged">>

\* C1 (cache hit): a call with replace = false whose file exists returns the
\* product loaded from that file; the only operation it invokes is the read
\* of that file (no raw read, no combination, no averaging, no write, no
\* removal) and the archive is as it was.
C1_CacheHit ==
    (Done /\ args[1].replace = FALSE /\ Cached) =>
        /\ ret[1] = open_dataset(snap[1].files, Target(args[1]))
        /\ log[1] = <<Ev("reader_averaged", Target(args[1]))>>
        /\ files = snap[1].files
        /\ permdirs = snap[1].permdirs

C1_Witness ==
    /\ Done /\ args[1].replace = FALSE /\ Cached
    /\ IsDs(ret[1])
    /\ args[1].metrics = "diff"

\* C2 (cache bypass): a call with replace = true never reads the cache file
\* before it has rewritten it; its first operation is the raw read; and when
\* it returns a product, it has read the raw field, averaged, removed the
\* file at the cache path, written the newly averaged product there and
\* returned that product, computed from the raw output as it now is.
C2_CacheBypass ==
    (Done /\ args[1].replace = TRUE) =>
        /\ Len(log[1]) >= 1 /\ log[1][1].op = "reader_nemo"
        /\ \A i \in 1..Len(log[1]) :
             (log[1][i].op = "reader_averaged" /\ log[1][i].what = Target(args[1]))
                => \E j \in 1..(i - 1) :
                      log[1][j].op = "to_netcdf" /\ log[1][j].what = Target(args[1])
        /\ IsDs(ret[1]) =>
             /\ Ops(log[1]) = PipelineOps(args[1])
             /\ \E i \in 1..Len(log[1]) :
                  log[1][i] = Ev("remove", Target(args[1]))
             /\ ds[1] = averaging(args[1].expname, xdata[1], args[1].varlabel,
                                  args[1].diagname)
             /\ xdata[1].src.ver = raw[args[1].expname]
             /\ files[Target(args[1])] = to_netcdf(ds[1])
             /\ ret[1] = open_dataset(files, Target(args[1]))

C2_Witness ==
    /\ Done /\ args[1].replace = TRUE /\ Cached
    /\ IsDs(ret[1])
    /\ files[Target(args[1])] # snap[1].files[Target(args[1])]

\* C3 (idempotence): when a call with replace = false returned a product,
\* the next call with the same arguments returns the identical product and
\* performs no raw read and no write.
C3_Idempotent ==
    (Done /\ args[1].replace = FALSE /\ args[1] = last[1].args /\ IsDs(last[1].ret)) =>
        /\ ret[1] = last[1].ret
        /\ ~Has(log[1], "reader_nemo")
        /\ ~Has(log[1], "to_netcdf")

\* the first call found no file and populated the cache
C3_Witness ==
    /\ Done /\ args[1].replace = FALSE /\ args[1] = last[1].args
    /\ IsDs(last[1].ret) /\ IsDs(ret[1])
    /\ ncalls[1] = 1

\* C4 (persist, then reload): a call that is not answered from the cache and
\* returns a product has written exactly one file, at the path a cache probe
\* for the same arguments reads; the permanent-archive directory exists; no
\* other file changed; and the value returned is the file read back after
\* the write, not the dataset in memory.
C4_PersistReload ==
    (Done /\ PastProbe /\ IsDs(ret[1])) =>
        LET path == ReaderFilename(args[1].expname, args[1].startyear,
                                   args[1].endyear, args[1].varlabel,
                                   args[1].diagname, args[1].metrics)
        IN  /\ Count(log[1], "to_netcdf") = 1
            /\ Has(log[1], "to_netcdf") =>
                 \A i \in 1..Len(log[1]) :
                    log[1][i].op = "to_netcdf" => log[1][i].what = path
            /\ PermDir(args[1].expname) \in permdirs
            /\ DOMAIN files = DOMAIN snap[1].files \cup {path}
            /\ \A f \in DOMAIN snap[1].files \ {path} : files[f] = snap[1].files[f]
            /\ ret[1] = open_dataset(files, path)
            /\ ret[1].backing = path
            /\ ret[1] # ds[1]

\* the directory was not there when the call started
C4_Witness ==
    /\ Done /\ PastProbe /\ IsDs(ret[1])
    /\ PermDir(args[1].expname) \notin snap[1].permdirs
    /\ PermDir(args[1].expname) \in permdirs

\* C5 as stated (missing reference is fatal): whenever metrics # 'base' and
\* the reference product the configuration names is not on disk, the call
\* ends in an error, without averaging and without writing.
C5_AnyCall ==
    (Done /\ args[1].metrics # "base" /\ RefConfigured
          /\ RefTarget \notin DOMAIN snap[1].files) =>
        /\ IsErr(ret[1])
        /\ ~Has(log[1], "averaging")
        /\ ~Has(log[1], "to_netcdf")
        /\ files = snap[1].files

\* C5 as amended: the same, for the calls that are not answered from the
\* cache (replace = true, or no cached file): such a call ends in an error;
\* it reads no raw output but the experiment's own, combines nothing,
\* averages nothing, and leaves the archive as it was.
C5_MissingReferenceFatal ==
    (Done /\ args[1].metrics # "base" /\ RefConfigured
          /\ RefTarget \notin DOMAIN snap[1].files /\ PastProbe) =>
        /\ IsErr(ret[1])
        /\ \A i \in 1..Len(log[1]) :
             log[1][i].op = "reader_nemo" => log[1][i].what[1] = args[1].expname
        /\ Count(log[1], "reader_nemo") = 1
        /\ ~Has(log[1], "cost")
        /\ ~Has(log[1], "averaging")
        /\ ~Has(log[1], "to_netcdf")
        /\ files = snap[1].files

\* the raw field was read and the load of the reference product failed
C5_Witness ==
    /\ Done /\ args[1].metrics # "base" /\ RefConfigured
    /\ RefTarget \notin DOMAIN snap[1].files /\ PastProbe
    /\ Len(log[1]) >= 3
    /\ log[1][Len(log[1])] = Ev("reader_averaged", RefTarget)
    /\ ret[1] = Err("FileNotFoundError")

\* C6 (state unchanged on failure): a call that is not answered from the
\* cache while the experiment has no raw output ends in FileNotFoundError
\* right after its one raw read, and the archive (files and directories) is
\* exactly as it was when the call started.
C6_RawMissingLeavesCache ==
    (Done /\ PastProbe /\ raw[args[1].expname] = 0) =>
        /\ ret[1] = Err("FileNotFoundError")
        /\ Len(log[1]) >= 1
        /\ log[1][Len(log[1])].op = "reader_nemo"
        /\ Count(log[1], "reader_nemo") = 1
        /\ files = snap[1].files
        /\ permdirs = snap[1].permdirs

\* replace = true on a file that exists
C6_Witness ==
    /\ Done /\ raw[args[1].expname] = 0
    /\ args[1].replace = TRUE /\ Cached
    /\ ret[1] = Err("FileNotFoundError")
    /\ Target(args[1]) \in DOMAIN files

\* the reference a combined product was computed against, as
\* <<expname, startyear, endyear>>
ReferenceOf(d) == <<d.src.comb[2], d.src.comb[4], d.src.comb[5]>>

\* C24 (the cache key leaves the reference out): the name of the cached file
\* is made of the archive of the experiment, diagname, varlabel, metrics,
\* startyear and endyear and of nothing meanfield.yaml says; a call with
\* metrics other than 'base' and replace = false whose file exists returns
\* what that file holds without opening meanfield.yaml, so the product is
\* the same whatever reference experiment or year range is configured, and
\* the same as the one the previous call with these arguments returned.
C24_KeyOmitsReference ==
    (Done /\ args[1].metrics # "base" /\ args[1].replace = FALSE /\ Cached) =>
        LET a == args[1]
            name == <<PermDir(a.expname), a.diagname, a.varlabel, a.metrics,
                      a.startyear, a.endyear>>
        IN  /\ log[1] = <<Ev("reader_averaged", name)>>
            /\ ~Has(log[1], "open_yaml")
            /\ name \in DOMAIN snap[1].files
            /\ ret[1] = open_dataset(snap[1].files, name)
            /\ (last[1].args = a /\ IsDs(last[1].ret)) => ret[1] = last[1].ret

\* a stale product: it was computed against one year range of the
\* reference experiment and is returned while meanfield.yaml names another
C24_Witness ==
    /\ Done /\ args[1].metrics # "base" /\ args[1].replace = FALSE /\ Cached
    /\ IsDs(ret[1])
    /\ last[1].args = args[1] /\ last[1].ret = ret[1]
    /\ RefConfigured
    /\ config.expname = ReferenceOf(ret[1])[1]
    /\ <<config.startyear, config.endyear>> # <<ReferenceOf(ret[1])[2], ReferenceOf(ret[1])[3]>>

\* ------------------------------------------------------------------------
\* Properties of the averaging engine
\* ------------------------------------------------------------------------
AvDone == avOut.tag # "unbound"
AvName == SplitVarname(avArgs.varlabel)

C8_ProfileHovmoller3D ==
    (AvDone /\ AvName \in Names3D) =>
        /\ avArgs.diagname = "profile" =>
              (IsDs(avOut) /\ avOut.dims = <<"z">>)
        /\ avArgs.diagname = "hovmoller" =>
              (IsDs(avOut) /\ avOut.dims = <<"time", "z">>)

\* C9 (map, field): for every catalogue variable, kind 'map' gives a product
\* on (y, x) with lat and lon, kind 'field' one on (y, x) for a 2D variable
\* and on (z, y, x) with depth for a 3D variable; a dataset in each case.
C9_MapField ==
    (AvDone /\ AvName \in CatalogueNames) =>
        /\ avArgs.diagname = "map" =>
              (IsDs(avOut) /\ avOut.dims = <<"y", "x">>
                           /\ {"lat", "lon"} \subseteq avOut.coords)
        /\ avArgs.diagname = "field" =>
              (IsDs(avOut)
               /\ avOut.dims = IF AvName \in Names3D THEN <<"z", "y", "x">>
                                                    ELSE <<"y", "x">>
               /\ (AvName \in Names3D => "z" \in avOut.coords))

\* C10 (boundary): for every catalogue variable of dim '2D', kind 'profile'
\* or 'hovmoller' ends in an error: averaging returns no dataset, and a call
\* of postreader_averaged that reaches the averaging returns no product and
\* leaves the archive as it was.
C10_Reject2D ==
    /\ (AvDone /\ AvName \in Names2D /\ avArgs.diagname \in {"profile", "hovmoller"})
          => IsErr(avOut)
    /\ (Done /\ SplitVarname(args[1].varlabel) \in Names2D
             /\ args[1].diagname \in {"profile", "hovmoller"} /\ PastProbe)
          => (IsErr(ret[1]) /\ files = snap[1].files)

\* the raw field was read and the averaging raised
C10_Witness ==
    /\ Done /\ SplitVarname(args[1].varlabel) \in Names2D
    /\ args[1].diagname \in {"profile", "hovmoller"}
    /\ Len(log[1]) >= 2
    /\ log[1][Len(log[1])].op = "averaging"
    /\ IsErr(ret[1])

\* C11 (invalid diagnostic kind): a call with a kind outside timeseries,
\* profile, hovmoller, map, field and no cached file ends in an error that
\* is raised before the raw field is read and before any reference product
\* is loaded; no product is returned and no file is written.
C11_InvalidKindImmediate ==
    (Done /\ args[1].diagname \notin DiagKinds /\ ~Cached) =>
        /\ IsErr(ret[1])
        /\ ~Has(log[1], "reader_nemo")
        /\ ~Has(log[1], "open_yaml")
        /\ \A i \in 1..Len(log[1]) :
             log[1][i].op = "reader_averaged" => log[1][i].what = Target(args[1])
        /\ ~Has(log[1], "to_netcdf")
        /\ files = snap[1].files

\* ------------------------------------------------------------------------
\* Two callers of postreader_averaged at once
\* ------------------------------------------------------------------------
\* both callers ask for a recomputation; they may name the same product
RaceArgs ==
    {a \in CallArgs : a.replace = TRUE /\ a.diagname = "timeseries"
                      /\ a.metrics = "base"}

\* each caller makes one call
CallRace(p) ==
    /\ ncalls[p] = 0
    /\ CallFrom(p, RaceArgs)

\* the model run rewrites the raw output while post-processing is going on
RawRewrite ==
    /\ \E e \in Exps, v \in 1..MaxRawVer :
         /\ v # raw[e]
         /\ raw' = [raw EXCEPT ![e] = v]
    /\ UNCHANGED <<files, permdirs, config, pc, args, xdata, ds, ret, log, snap, ncalls, last, avVars, eofVars, rbVars, rsVars>>

InitRace == InitWith(Varlabels, {ConfigMissing})

\* the steps of the two calls interleave freely: nothing in the code locks
\* the cache file
NextRace ==
    \/ CallRace(1)
    \/ Probe(1)
    \/ ReadRaw(1)
    \/ Averaging(1)
    \/ MakeDirs(1)
    \/ Remove(1)
    \/ Write(1)
    \/ Reload(1)
    \/ CallRace(2)
    \/ Probe(2)
    \/ ReadRaw(2)
    \/ Averaging(2)
    \/ MakeDirs(2)
    \/ Remove(2)
    \/ Write(2)
    \/ Reload(2)
    \/ RawRewrite

SpecRace == InitRace /\ [][NextRace]_vars

Other(p) == 3 - p
\* caller p has written its product and tried to load it back
Reloaded(p) ==
    /\ pc[p] = "done"
    /\ Has(log[p], "to_netcdf")
    /\ log[p][Len(log[p])].op = "reader_averaged"
\* what caller p gets back when nobody touched the file in between
OwnProduct(p) ==
    open_dataset(WriteFile(files, Target(args[p]), ds[p]), Target(args[p]))
\* caller q has removed or written the file caller p is about
Touched(q, p) ==
    \E i \in 1..Len(log[q]) :
        /\ log[q][i].op \in {"remove", "to_netcdf"}
        /\ log[q][i].what = Target(args[p])

\* C17 (race on a shared cache key): two calls with replace = true are not
\* kept apart; a caller that wrote its product and then fails to load it
\* back (file not found) or loads a product it did not write has been
\* overtaken by the other caller, who removed or rewrote the file of the
\* same cache key in between; the witness is such an interleaving.
C17_UncoordinatedReplace ==
    \A p \in Procs :
        (Reloaded(p) /\ ret[p] # OwnProduct(p)) =>
            /\ args[Other(p)].replace = TRUE
            /\ Target(args[Other(p)]) = Target(args[p])
            /\ Touched(Other(p), p)
            /\ ret[p] = Err("FileNotFoundError")
                 \/ (IsDs(ret[p]) /\ pc[Other(p)] \in {"reload", "done"}
                     /\ ret[p] = OwnProduct(Other(p)))

\* caller 2 removed the file after caller 1 wrote it and before caller 1
\* loaded it back
C17_Witness ==
    /\ Reloaded(1)
    /\ args[1] = args[2]
    /\ ret[1] = Err("FileNotFoundError")
    /\ pc[2] = "write"

\* ------------------------------------------------------------------------
\* EOF projector (osprey/means/eof.py, project_eofs)
\* ------------------------------------------------------------------------
MaxSpan == 3
MaxLeg == 4
MaxLeap == 2

RECURSIVE Digits(_)
Digits(n) == IF n < 10 THEN <<n>> ELSE Append(Digits(n \div 10), n % 10)

\* str(n).zfill(w), as the sequence of its digits
ZFill(n, w) ==
    LET d == Digits(n)
    IN  IF Len(d) >= w THEN d ELSE [i \in 1..(w - Len(d)) |-> 0] \o d

\* os.path.join(dirs['tmp'], str(endleg).zfill(3), ...)
ScratchDir(endleg) == <<"tmp", ZFill(endleg, 3)>>
PatternPath(a) == <<ScratchDir(a.endleg), a.varname, "pattern">>
SeriesPath(a, i) == <<ScratchDir(a.endleg), a.varname, "series", ZFill(i, 5)>>
FirstSeriesPath(a) == <<ScratchDir(a.endleg), a.varname, "series", <<0, 0, 0, 0, 0>>>>
RawFieldPath(a) == <<ScratchDir(a.endleg), a.varname>>
EofPath(a) == <<ScratchDir(a.endleg), a.varname, "eof">>
\* the cdo command names {varname}_variance.nc relative to the working directory
VariancePath(a) == <<<<"cwd">>, a.varname, "variance">>

\* lines 156-159
startleg(a) == a.endleg - a.yearspan + 1
startyear(a) == 1990 + startleg(a) - 2
endyear(a) == 1990 + a.endleg - 2
\* a slip: the window is counted without its last year
neofs_withoutLast(a) == endyear(a) - startyear(a)

neofs(a) == endyear(a) - startyear(a) + 1

\* a time axis, of calendar dates or of decimal years
DateAxis(dates) == [kind |-> "cftime", dates |-> dates, dec |-> <<>>]
DecimalAxis(dec) == [kind |-> "decimal", dates |-> <<>>, dec |-> dec]
\* the time of one pattern slice, kept as a scalar coordinate
SliceTime(i) == [kind |-> "slice", dates |-> <<>>, dec |-> <<i>>]
NoTime == [kind |-> "none", dates |-> <<>>, dec |-> <<>>]

\* get_forecast_year(endyear, yearleap)
get_forecast_year(ey, yearleap) == ey + yearleap

\* _forecast_xarray(foreyear, use_cftime): a time axis of one entry, the
\* forecast date, as a calendar date or as a decimal year
forecast_xarray(foreyear, use_cftime) ==
    LET fdate == <<<<foreyear, 1>>>>
    IN  IF use_cftime = FALSE THEN DecimalAxis(get_decimal_year(fdate))
        ELSE DateAxis(fdate)

xf(a) == forecast_xarray(get_forecast_year(endyear(a), a.yearleap), FALSE)
yf(a) == forecast_xarray(get_forecast_year(endyear(a), a.yearleap), TRUE)

\* the files of a basis set and of the raw field, as the decomposition step
\* leaves them
PatternFile(v, n, ver) == [kind |-> "pattern", var |-> v, n |-> n, ver |-> ver]
SeriesFile(v, i, y0, y1, ver) ==
    [kind |-> "series", var |-> v, eof |-> i, time |-> TimeAxis(y0, y1), ver |-> ver]
RawFieldFile(v, y0, y1, ver) ==
    [kind |-> "field", var |-> v, time |-> TimeAxis(y0, y1), ver |-> ver]
VarianceFile(v, w) == [kind |-> "variance", var |-> v, weights |-> w]

\* info['dim'] of the catalogue entry
InfoDim(varname) == vardict[varname].dim
SpatialDims(varname) == Reduce(DataAxes(varname), {"time"})

\* pattern.isel(time=i)
Isel(pattern, i) ==
    IF i < pattern.n THEN [tag |-> "array", op |-> "isel", of |-> pattern, time |-> i]
    ELSE Err("IndexError")

\* x.polyfit(dim='time', deg=1, skipna=True): least-squares line through the
\* values y over the time axis x
polyfit(x, y) == [op |-> "polyfit", deg |-> 1, x |-> x, y |-> y]
\* xr.polyval(coord, coefficients): a value per entry of coord, on coord's
\* time axis
polyval(coord, p) == [op |-> "polyval", at |-> coord, p |-> p, timed |-> TRUE]
\* timeseries[varname].isel(time=-1): the last coefficient, a scalar
LastValue(timeseries) ==
    [op |-> "isel", of |-> timeseries, time |-> Len(timeseries.time) - 1,
     timed |-> FALSE]

\* field = pattern.isel(time=0)*0: zero on the spatial grid, the time of
\* slice 0 kept as a scalar coordinate
ZeroField(pattern, varname) ==
    [tag |-> "field", class |-> "Dataset", terms |-> <<>>, fit |-> None,
     dims |-> SpatialDims(varname), time |-> SliceTime(0)]

\* field += theta * basis: a theta on a time axis brings that axis along
AddTerm(field, theta, basis) ==
    [field EXCEPT !.terms = Append(@, [theta |-> theta, basis |-> basis]),
                  !.dims = IF theta.timed /\ "time" \notin {@[k] : k \in 1..Len(@)}
                           THEN Append(@, "time") ELSE @,
                  !.time = IF theta.timed THEN theta.at ELSE @]

\* field['time'] = yf
SetTime(field, t) ==
    [field EXCEPT !.time = t,
                  !.dims = IF "time" \notin {@[k] : k \in 1..Len(@)}
                           THEN Append(@, "time") ELSE @]

\* field.drop_vars({'time'})
DropTime(field) == [field EXCEPT !.time = NoTime]

\* field.transpose(*order): order must name exactly the dimensions of field
Transpose(field, order) ==
    IF {order[k] : k \in 1..Len(order)} = {field.dims[k] : k \in 1..Len(field.dims)}
    THEN [field EXCEPT !.dims = order]
    ELSE Err("ValueError")

\* the state of a call: the field so far, the operations so far, the
\* exception raised if any
EofState(field, lg, err) == [field |-> field, log |-> lg, err |-> err]

\* lines 179-193, one pass of the loop of mode 'full'
FullStep(fs, a, pattern, i, st) ==
    LET filename == SeriesPath(a, i)
        lg == Append(st.log, Ev("open", filename))
    IN  IF filename \notin DOMAIN fs THEN EofState(st.field, lg, Err("OSError"))
        ELSE LET timeseries == fs[filename]
                 new_time == DecimalAxis(get_decimal_year(timeseries.time))
                 p == polyfit(new_time, [var |-> timeseries.var, eof |-> timeseries.eof,
                                         ver |-> timeseries.ver])
                 theta == polyval(xf(a), p)
                 basis == Isel(pattern, i)
             IN  IF IsErr(basis) THEN EofState(st.field, lg, basis)
                 ELSE EofState(SetTime(AddTerm(st.field, theta, basis), yf(a)), lg, None)

RECURSIVE FullLoop(_, _, _, _, _)
FullLoop(fs, a, pattern, i, st) ==
    IF i >= neofs(a) \/ st.err # None THEN st
    ELSE FullLoop(fs, a, pattern, i + 1, FullStep(fs, a, pattern, i, st))

\* a slip: the series is fitted over its calendar dates
FirstMode_noDecimalYear(fs, a, pattern, st) ==
    LET filename == FirstSeriesPath(a)
        lg == Append(st.log, Ev("open", filename))
    IN  IF filename \notin DOMAIN fs THEN EofState(st.field, lg, Err("OSError"))
        ELSE LET timeseries == fs[filename]
                 p == polyfit(DateAxis(timeseries.time), [var |-> timeseries.var, eof |-> timeseries.eof,
                                                ver |-> timeseries.ver])
                 theta == polyval(xf(a), p)
                 basis == Isel(pattern, 0)
             IN  IF IsErr(basis) THEN EofState(st.field, lg, basis)
                 ELSE EofState(SetTime(AddTerm(st.field, theta, basis), yf(a)), lg, None)

\* lines 198-209, mode 'first'
FirstMode(fs, a, pattern, st) ==
    LET filename == FirstSeriesPath(a)
        lg == Append(st.log, Ev("open", filename))
    IN  IF filename \notin DOMAIN fs THEN EofState(st.field, lg, Err("OSError"))
        ELSE LET timeseries == fs[filename]
                 new_time == DecimalAxis(get_decimal_year(timeseries.time))
                 p == polyfit(new_time, [var |-> timeseries.var, eof |-> timeseries.eof,
                                         ver |-> timeseries.ver])
                 theta == polyval(xf(a), p)
                 basis == Isel(pattern, 0)
             IN  IF IsErr(basis) THEN EofState(st.field, lg, basis)
                 ELSE EofState(SetTime(AddTerm(st.field, theta, basis), yf(a)), lg, None)

\* lines 215-219, one pass of the loop of mode 'reco'
RecoStep(fs, a, pattern, i, st) ==
    LET filename == SeriesPath(a, i)
        lg == Append(st.log, Ev("open", filename))
    IN  IF filename \notin DOMAIN fs THEN EofState(st.field, lg, Err("OSError"))
        ELSE LET timeseries == fs[filename]
                 theta == LastValue(timeseries)
                 basis == Isel(pattern, i)
             IN  IF IsErr(basis) THEN EofState(st.field, lg, basis)
                 ELSE EofState(AddTerm(st.field, theta, basis), lg, None)

RECURSIVE RecoLoop(_, _, _, _, _)
RecoLoop(fs, a, pattern, i, st) ==
    IF i >= neofs(a) \/ st.err # None THEN st
    ELSE RecoLoop(fs, a, pattern, i + 1, RecoStep(fs, a, pattern, i, st))

\* lines 212-221, mode 'reco'
RecoMode(fs, a, pattern, st) ==
    LET r == RecoLoop(fs, a, pattern, 0, st)
    IN  IF r.err # None THEN r ELSE EofState(DropTime(r.field), r.log, None)

RECURSIVE SumSeq(_)
SumSeq(w) == IF w = <<>> THEN 0 ELSE Head(w) + SumSeq(Tail(w))

\* np.searchsorted(np.cumsum(weights) / np.sum(weights), 0.9) + 1: the
\* number of cumulative shares below 9/10, plus one
Feofs(weights) ==
    Cardinality({j \in 1..Len(weights) :
                    10 * SumSeq(SubSeq(weights, 1, j)) < 9 * SumSeq(weights)}) + 1

\* lines 241-247, one pass of the loop of mode 'frac'
FracStep(fs, a, pattern, i, st) ==
    LET filename == SeriesPath(a, i)
        lg == Append(st.log, Ev("open", filename))
    IN  IF filename \notin DOMAIN fs THEN EofState(st.field, lg, Err("OSError"))
        ELSE LET timeseries == fs[filename]
                 p == polyfit(DateAxis(timeseries.time), [var |-> timeseries.var, eof |-> timeseries.eof,
                                                ver |-> timeseries.ver])
                 theta == polyval(xf(a), p)
                 basis == Isel(pattern, i)
             IN  IF IsErr(basis) THEN EofState(st.field, lg, basis)
                 ELSE EofState(AddTerm(st.field, theta, basis), lg, None)

RECURSIVE FracLoop(_, _, _, _, _, _)
FracLoop(fs, a, pattern, i, n, st) ==
    IF i >= n \/ st.err # None THEN st
    ELSE FracLoop(fs, a, pattern, i + 1, n, FracStep(fs, a, pattern, i, st))

\* lines 224-247, mode 'frac'
FracMode(fs, a, pattern, st) ==
    LET lg == Append(st.log, Ev("cdo", VariancePath(a)))
    IN  IF VariancePath(a) \notin DOMAIN fs
        THEN EofState(st.field, lg, Err("CalledProcessError"))
        ELSE FracLoop(fs, a, pattern, 0, Feofs(fs[VariancePath(a)].weights),
                      EofState(st.field, lg, None))

\* lines 252-257, mode 'fit': the trend of the raw field itself
FitMode(fs, a, st) ==
    LET filename == RawFieldPath(a)
        lg == Append(st.log, Ev("open", filename))
    IN  IF filename \notin DOMAIN fs THEN EofState(st.field, lg, Err("OSError"))
        ELSE LET data == fs[filename]
                 p == polyfit(DateAxis(data.time), [var |-> data.var, ver |-> data.ver])
             IN  EofState([tag |-> "field", class |-> "DataArray", terms |-> <<>>,
                           fit |-> polyval(xf(a), p),
                           dims |-> <<"time">> \o SpatialDims(a.varname),
                           time |-> xf(a)],
                          lg, None)

\* remove_existing_filelist(infile)
remove_existing_filelist(fs, infile) == [f \in DOMAIN fs \ {infile} |-> fs[f]]

\* lines 259-269: transpose, replace the file, return the field
Persist(fs, a, st) ==
    LET order == IF InfoDim(a.varname) = "3D" THEN <<"time", "z", "y", "x">>
                 ELSE <<"time", "y", "x">>
        t == Transpose(st.field, order)
        infile == EofPath(a)
        lg == Append(st.log, Ev("transpose", order))
    IN  IF IsErr(t) THEN [ret |-> t, fs |-> fs, log |-> lg]
        ELSE [ret |-> t,
              fs |-> [f \in DOMAIN fs \cup {infile} |->
                         IF f = infile THEN [kind |-> "eof", field |-> t]
                         ELSE remove_existing_filelist(fs, infile)[f]],
              log |-> lg \o <<Ev("remove", infile), Ev("to_netcdf", infile)>>]

\* project_eofs(expname, varname, endleg, yearspan, yearleap, mode): the
\* field returned or the exception raised, the scratch files afterwards and
\* the operations invoked
project_eofs(fs, a) ==
    LET lg0 == <<Ev("open", PatternPath(a))>>
    IN  IF PatternPath(a) \notin DOMAIN fs
        THEN [ret |-> Err("OSError"), fs |-> fs, log |-> lg0]
        ELSE LET pattern == fs[PatternPath(a)]
                 st0 == EofState(ZeroField(pattern, a.varname), lg0,
                                 IF pattern.n = 0 THEN Err("IndexError") ELSE None)
                 st == IF st0.err # None THEN st0
                       ELSE IF a.mode = "full" THEN FullLoop(fs, a, pattern, 0, st0)
                       ELSE IF a.mode = "first" THEN FirstMode(fs, a, pattern, st0)
                       ELSE IF a.mode = "reco" THEN RecoMode(fs, a, pattern, st0)
                       ELSE IF a.mode = "frac" THEN FracMode(fs, a, pattern, st0)
                       ELSE IF a.mode = "fit" THEN FitMode(fs, a, st0)
                       ELSE st0
             IN  IF st.err # None THEN [ret |-> st.err, fs |-> fs, log |-> st.log]
                 ELSE Persist(fs, a, st)

\* the variables the projector is run on
EofVarnames == {"thetao", "tos"}
EofModes == {"full", "first", "reco", "frac", "fit", "mean"}
EofCallArgs ==
    [expname : Exps, varname : EofVarnames, endleg : (MaxLeg - 1)..MaxLeg,
     yearspan : 1..MaxSpan, yearleap : 1..MaxLeap, mode : EofModes]

\* variance shares as cdo lists them, largest first
WeightLists(n) ==
    {w \in [1..n -> {1, 9}] : \A j \in 1..(n - 1) : w[j] >= w[j + 1]}

\* what the decomposition of variable v over the span years that end with
\* leg 'leg' leaves in the scratch directory: the pattern file (when pat),
\* the series files 0..nser-1, the raw field (when rawf), a forecast of an
\* earlier call (when old), the variance shares w (when var)
Scratch(v, leg, span, pat, nser, rawf, old, var, w, ver) ==
    LET a == [expname |-> "X1", varname |-> v, endleg |-> leg, yearspan |-> span,
              yearleap |-> 1, mode |-> "full"]
        y0 == startyear(a)
        y1 == endyear(a)
        dom == (IF pat THEN {PatternPath(a)} ELSE {})
               \cup {SeriesPath(a, i) : i \in 0..(nser - 1)}
               \cup (IF rawf THEN {RawFieldPath(a)} ELSE {})
               \cup (IF old THEN {EofPath(a)} ELSE {})
               \cup (IF var THEN {VariancePath(a)} ELSE {})
    IN  [f \in dom |->
            IF f = PatternPath(a) THEN PatternFile(v, span, ver)
            ELSE IF f = RawFieldPath(a) THEN RawFieldFile(v, y0, y1, 1)
            ELSE IF f = EofPath(a) THEN [kind |-> "eof", field |-> None]
            ELSE IF f = VariancePath(a) THEN VarianceFile(v, w)
            ELSE SeriesFile(v, CHOOSE i \in 0..(nser - 1) : f = SeriesPath(a, i),
                            y0, y1, ver)]

\* the post-reader is not called
ReaderIdle ==
    /\ files = <<>>
    /\ permdirs = {}
    /\ config = ConfigMissing
    /\ raw = [e \in AllExps |-> 1]
    /\ pc = [p \in Procs |-> "idle"]
    /\ args = [p \in Procs |-> NoArgs]
    /\ xdata = [p \in Procs |-> NoData]
    /\ ds = [p \in Procs |-> NoData]
    /\ ret = [p \in Procs |-> Unbound]
    /\ log = [p \in Procs |-> <<>>]
    /\ snap = [p \in Procs |-> NoSnap]
    /\ ncalls = [p \in Procs |-> 0]
    /\ last = [p \in Procs |-> [args |-> NoArgs, ret |-> Unbound]]
    /\ avArgs = NoAvArgs
    /\ avOut = Unbound

InitEof ==
    /\ ReaderIdle
    /\ RbIdle
    /\ RsIdle
    /\ \E v \in EofVarnames, span \in 1..MaxSpan, pat \in BOOLEAN, rawf \in BOOLEAN,
          old \in BOOLEAN, var \in BOOLEAN :
         \E nser \in 0..span, w \in WeightLists(span) :
            /\ var \/ w = [j \in 1..span |-> 1]
            /\ eofFs = Scratch(v, MaxLeg, span, pat, nser, rawf, old, var, w, 1)
    /\ eofArgs = NoEofArgs
    /\ eofOut = Unbound
    /\ eofLog = <<>>
    /\ eofSnap = <<>>

\* one call of project_eofs
ProjectCall ==
    /\ eofOut = Unbound
    /\ \E a \in EofCallArgs :
         LET r == project_eofs(eofFs, a)
         IN  /\ eofArgs' = a
             /\ eofOut' = r.ret
             /\ eofFs' = r.fs
             /\ eofLog' = r.log
             /\ eofSnap' = eofFs
    /\ UNCHANGED <<prVars, avVars, rbVars, rsVars>>

NextEof == ProjectCall

SpecEof == InitEof /\ [][NextEof]_vars

\* ------------------------------------------------------------------------
\* Properties of the EOF projector
\* ------------------------------------------------------------------------
EofDone == eofOut.tag # "unbound"
IsField(v) == v.tag = "field"
\* the series files the call opened, in order
SeriesOpened ==
    SelectSeq(eofLog, LAMBDA e : e.op = "open" /\ Len(e.what) = 4)
\* trend of series i over decimal years, evaluated at the forecast year,
\* times pattern slice i
TrendTerm(fs, a, i) ==
    LET ts == fs[SeriesPath(a, i)]
    IN  [theta |-> polyval(xf(a),
                           polyfit(DecimalAxis(get_decimal_year(ts.time)),
                                   [var |-> ts.var, eof |-> ts.eof, ver |-> ts.ver])),
         basis |-> Isel(fs[PatternPath(a)], i)]
\* digits d read as a number
RECURSIVE NumberOf(_)
NumberOf(d) == IF d = <<>> THEN 0 ELSE 10 * NumberOf(SubSeq(d, 1, Len(d) - 1)) + d[Len(d)]

C13_FirstIsFullAtZero ==
    (EofDone /\ eofArgs.mode = "first") =>
        LET full == project_eofs(eofSnap, [eofArgs EXCEPT !.mode = "full"]).ret
        IN  /\ \A k \in 1..Len(SeriesOpened) :
                  SeriesOpened[k].what = SeriesPath(eofArgs, 0)
            /\ IsField(eofOut) =>
                  /\ eofOut.terms = <<TrendTerm(eofSnap, eofArgs, 0)>>
                  /\ eofOut.time = yf(eofArgs)
            /\ IsField(full) =>
                  /\ IsField(eofOut)
                  /\ eofOut.terms = <<full.terms[1]>>
                  /\ eofOut.time = full.time
                  /\ eofOut.dims = full.dims
            /\ eofArgs.yearspan = 1 => eofOut = full

C13_Witness ==
    /\ EofDone /\ eofArgs.mode = "first"
    /\ eofArgs.yearspan = 1
    /\ IsField(eofOut)
    /\ Len(SeriesOpened) = 1

\* C14 (axis order and replacement): in each of the modes full, first,
\* reco, frac, fit and for 2D and 3D variables, a call whose inputs were
\* read ends by transposing the field to (time, z, y, x) or (time, y, x),
\* removing {varname}_eof.nc and writing the field there; mode 'reco' too.
C14_TransposeAndReplace ==
    (EofDone /\ eofArgs.mode \in {"full", "first", "reco", "frac", "fit"}
             /\ Has(eofLog, "transpose")) =>
        /\ IsField(eofOut)
        /\ eofOut.dims = (IF InfoDim(eofArgs.varname) = "3D"
                          THEN <<"time", "z", "y", "x">> ELSE <<"time", "y", "x">>)
        /\ Len(eofLog) >= 3
        /\ SubSeq(eofLog, Len(eofLog) - 1, Len(eofLog))
              = <<Ev("remove", EofPath(eofArgs)), Ev("to_netcdf", EofPath(eofArgs))>>
        /\ EofPath(eofArgs) \in DOMAIN eofFs
        /\ eofFs[EofPath(eofArgs)].field = eofOut

\* C22 (unrecognised mode): a call with a mode outside full, first, reco,
\* frac, fit whose pattern file was read raises nothing, opens no series and
\* no raw field, transposes the zero field pattern[0] * 0 and writes it to
\* {varname}_eof.nc in place of any earlier file.
C22_UnknownModeSilent ==
    (EofDone /\ eofArgs.mode \notin {"full", "first", "reco", "frac", "fit"}
             /\ Has(eofLog, "transpose")) =>
        LET order == IF InfoDim(eofArgs.varname) = "3D"
                     THEN <<"time", "z", "y", "x">> ELSE <<"time", "y", "x">>
        IN  /\ eofLog = <<Ev("open", PatternPath(eofArgs)), Ev("transpose", order),
                          Ev("remove", EofPath(eofArgs)), Ev("to_netcdf", EofPath(eofArgs))>>
            /\ IsField(eofOut)
            /\ eofOut.terms = <<>>
            /\ eofOut.dims = order
            /\ EofPath(eofArgs) \in DOMAIN eofFs
            /\ eofFs[EofPath(eofArgs)].field = eofOut

\* the shortest prefix of the weights w whose share reaches 9/10
ShortestPrefix(w) ==
    CHOOSE k \in 0..Len(w) :
        /\ 10 * SumSeq(SubSeq(w, 1, k)) >= 9 * SumSeq(w)
        /\ \A j \in 0..(k - 1) : 10 * SumSeq(SubSeq(w, 1, j)) < 9 * SumSeq(w)

\* C15 (mode 'frac'): with the weights ranked, the indices accumulated are
\* the shortest leading prefix whose cumulative share reaches 90%, 1 <= k <=
\* number of weights, and each term is the (trend at the forecast year) x
\* pattern[i] term of mode 'full'.
C15_FracPrefix ==
    (EofDone /\ eofArgs.mode = "frac" /\ IsField(eofOut)) =>
        LET w == eofSnap[VariancePath(eofArgs)].weights
            k == Len(eofOut.terms)
        IN  /\ 1 <= k /\ k <= Len(w)
            /\ k = ShortestPrefix(w)
            /\ eofOut.terms = [i \in 1..k |-> TrendTerm(eofSnap, eofArgs, i - 1)]

\* the scratch files without the basis set
WithoutBasis(fs) ==
    [f \in {g \in DOMAIN fs : Len(g) < 3 \/ g[3] \notin {"pattern", "series"}} |-> fs[f]]
\* the scratch files with another basis set in place of the one present
OtherBasis(fs) ==
    [f \in DOMAIN fs |->
        IF Len(f) >= 3 /\ f[3] \in {"pattern", "series"}
        THEN [fs[f] EXCEPT !.ver = 2] ELSE fs[f]]

\* C16 (mode 'fit'): the call needs only {varname}.nc: it returns a field
\* whenever that file exists, whether or not the pattern file exists, and
\* the field does not depend on the pattern and series files.
C16_FitIgnoresBasis ==
    (EofDone /\ eofArgs.mode = "fit" /\ RawFieldPath(eofArgs) \in DOMAIN eofSnap) =>
        /\ IsField(eofOut)
        /\ project_eofs(WithoutBasis(eofSnap), eofArgs).ret = eofOut
        /\ project_eofs(OtherBasis(eofSnap), eofArgs).ret = eofOut

\* ------------------------------------------------------------------------
\* Roll-back tool (martini/roll_back_ece4.py)
\* ------------------------------------------------------------------------
MaxRbLeg == 3

\* a file name is the sequence of its '_'-separated fields; a field is a
\* word or the time-step stamp NEMO puts in its restart names
Word(w) == [s |-> w, n |-> 0]
Stamp(leg) == [s |-> "#", n |-> leg]
OasisNames == {<<Word("rstas.nc")>>, <<Word("rstos.nc")>>, <<Word("rcf")>>}
SrfName == <<Word("srf00010000.0001")>>
NemoName(leg) == <<Word("X1"), Stamp(leg), Word("restart"), Word("oce"), Word("0000.nc")>>
\* '_'.join(basefile.split('_')[2:])
DropTwoFields(basefile) == SubSeq(basefile, 3, Len(basefile))

\* 'srf' in basefile, 'restart' in basefile
HasSrf(name) == \E k \in 1..Len(name) : name[k].s = "srf00010000.0001"
HasRestart(name) == \E k \in 1..Len(name) : name[k].s = "restart"
\* the names the cleaning browser matches: rstas.nc, rstos.nc, srf000*.????,
\* restart*.nc, rcf
MatchClean(name) ==
    \/ name \in OasisNames
    \/ name = SrfName
    \/ (name[1].s = "restart" /\ name[Len(name)].s = "0000.nc")
\* the copy browser, in its order: rstas.nc, rstos.nc, srf000*.????, rcf,
\* *restart*
CopyOrder(names) ==
    LET pick(n) == IF n \in names THEN <<n>> ELSE <<>>
        nemo == {n \in names : HasRestart(n)}
    IN  pick(<<Word("rstas.nc")>>) \o pick(<<Word("rstos.nc")>>) \o pick(SrfName)
        \o pick(<<Word("rcf")>>)
        \o (IF nemo = {} THEN <<>> ELSE <<CHOOSE n \in nemo : TRUE>>)

\* entries of the experiment folder: a regular file holding the restart of
\* a leg (0: something else), or a link to a file of restart/<leg> (0: to a
\* folder that is gone)
RegFile(leg, src) == [type |-> "file", leg |-> leg, src |-> src]
Link(leg, src) == [type |-> "link", leg |-> leg, src |-> src]
\* os.path.isfile: a regular file, or a link that leads to one
IsFile(top, name) ==
    /\ name \in DOMAIN top
    /\ top[name].type = "file" \/ top[name].leg > 0

\* a date as <<year, month, day>>; relativedelta(years=d) keeps month and
\* day, but for 29 February in a year that is not a leap year
IsLeap(y) == (y % 4 = 0 /\ y % 100 # 0) \/ y % 400 = 0
\* a slip: the years are counted the other way
AddYears_forward(date, d) ==
    <<date[1] - d, date[2],
      IF date[2] = 2 /\ date[3] = 29 /\ ~IsLeap(date[1] - d) THEN 28 ELSE date[3]>>

AddYears(date, d) ==
    <<date[1] + d, date[2],
      IF date[2] = 2 /\ date[3] = 29 /\ ~IsLeap(date[1] + d) THEN 28 ELSE date[3]>>

\* leginfo.yml as written by the model run, and as yaml.dump writes it
\* (keys sorted, comments gone)
LegInfo(num, start) ==
    [num |-> num, start |-> start, others |-> "base.context", layout |-> "original"]
YamlDump(leginfo) == [leginfo EXCEPT !.layout = "dumped"]

\* the files of restart/<leg>
RestartNames(leg) == OasisNames \cup {SrfName, NemoName(leg)}
\* the experiment folder of a run that is at leg num, with the given
\* restart entries at its top level
ExpFolder(num, start, top) ==
    [top |-> top, leginfo |-> LegInfo(num, start),
     restart |-> [d \in {ZFill(k, 3) : k \in 1..num} |->
                     RestartNames(NumberOf(d))],
     output |-> {start[1] - k : k \in 1..(num - 1)}]

\* a slip: whatever the browser matches is removed, links that lead nowhere
\* too
Cleaning_noIsfile(top) ==
    [n \in {m \in DOMAIN top : ~MatchClean(m)} |-> top[n]]
\* lines 78-84: remove what the browser matches, if os.path.isfile says so
Cleaning(top) ==
    [n \in {m \in DOMAIN top : ~(MatchClean(m) /\ IsFile(top, m))} |-> top[n]]

\* lines 119-134: one file of restart/<leg>
CopyOne(top, leg, basefile) ==
    IF IsFile(top, basefile) THEN [top |-> top, err |-> None]
    ELSE IF basefile \in OasisNames
    THEN \* shutil.copy writes through a link; its target folder is gone
         IF basefile \in DOMAIN top
         THEN [top |-> top, err |-> Err("FileNotFoundError")]
         ELSE [top |-> [n \in DOMAIN top \cup {basefile} |->
                           IF n = basefile THEN RegFile(leg, basefile) ELSE top[n]],
               err |-> None]
    ELSE IF HasSrf(basefile)
    THEN IF basefile \in DOMAIN top
         THEN [top |-> top, err |-> Err("FileExistsError")]
         ELSE [top |-> [n \in DOMAIN top \cup {basefile} |->
                           IF n = basefile THEN Link(leg, basefile) ELSE top[n]],
               err |-> None]
    ELSE IF HasRestart(basefile)
    THEN LET newfile == DropTwoFields(basefile)
         IN  IF newfile \in DOMAIN top
             THEN [top |-> top, err |-> Err("FileExistsError")]
             ELSE [top |-> [n \in DOMAIN top \cup {newfile} |->
                               IF n = newfile THEN Link(leg, basefile) ELSE top[n]],
                   err |-> None]
    ELSE [top |-> top, err |-> None]

\* lines 115-134: the files of restart/<leg>, in the browser's order
RECURSIVE CopyLoop(_, _, _)
CopyLoop(top, leg, filelist) ==
    IF filelist = <<>> THEN [top |-> top, err |-> None]
    ELSE LET r == CopyOne(top, leg, Head(filelist))
         IN  IF r.err # None THEN r ELSE CopyLoop(r.top, leg, Tail(filelist))

RbResult(out, exp, backup, lg) == [out |-> out, fs |-> [exp |-> exp, backup |-> backup], log |-> lg]

\* lines 76-143: cleaning, leginfo, restart files, old output
RollBack(exp, backup, a, lg) ==
    IF exp = None
    THEN RbResult(Err("FileNotFoundError"), exp, backup, Append(lg, Ev("clean", {})))
    ELSE
    LET cleaned == Cleaning(exp.top)
        lg1 == Append(lg, Ev("clean", DOMAIN exp.top \ DOMAIN cleaned))
        exp1 == [exp EXCEPT !.top = cleaned]
        info == exp.leginfo
        deltayear == a.leg - info.num
        newdate == AddYears(info.start, deltayear)
        orgdate == info.start
    IN  IF a.leg > info.num
        THEN RbResult(Err("ValueError"), exp1, backup, lg1)
        ELSE
        LET exp2 == IF a.leg < info.num
                    THEN [exp1 EXCEPT !.leginfo =
                             YamlDump([info EXCEPT !.num = a.leg, !.start = newdate])]
                    ELSE exp1
            lg2 == IF a.leg < info.num THEN Append(lg1, Ev("dump", a.leg)) ELSE lg1
            folder == ZFill(a.leg, 3)
            filelist == IF folder \in DOMAIN exp.restart
                        THEN CopyOrder(exp.restart[folder]) ELSE <<>>
            r == CopyLoop(exp2.top, a.leg, filelist)
            lg3 == Append(lg2, Ev("restart", folder))
        IN  IF r.err # None
            THEN RbResult(r.err, [exp2 EXCEPT !.top = r.top], backup, lg3)
            ELSE RbResult(Str("done"),
                          [exp2 EXCEPT !.top = r.top,
                                       !.output = {y \in @ : ~(newdate[1] <= y /\ y < orgdate[1])}],
                          backup, lg3)

\* lines 60-74, then the roll-back: --rerun restores the backup with
\* shutil.copytree, which raises when its destination exists; --backup
\* creates the backup if there is none
roll_back(fs, a) ==
    LET lgR == IF a.rerun THEN <<Ev("copytree", "exp")>> ELSE <<>>
    IN  IF a.rerun /\ fs.backup = None
        THEN RbResult(Err("SystemExit"), fs.exp, fs.backup, <<>>)
        ELSE IF a.rerun /\ fs.exp # None
        THEN RbResult(Err("FileExistsError"), fs.exp, fs.backup, lgR)
        ELSE LET exp == IF a.rerun THEN fs.backup ELSE fs.exp
             IN  IF a.backup /\ fs.backup = None
                 THEN IF exp = None
                      THEN RbResult(Err("FileNotFoundError"), exp, fs.backup,
                                    Append(lgR, Ev("copytree", "backup")))
                      ELSE RollBack(exp, exp, a, Append(lgR, Ev("copytree", "backup")))
                 ELSE RollBack(exp, fs.backup, a, lgR)

RbCallArgs == [expname : Exps, leg : 1..MaxRbLeg, rerun : BOOLEAN, backup : BOOLEAN]

\* one entry under a name, or none
Maybe(name, entries) == {<<>>} \cup {name :> e : e \in entries}

\* what the top level of the experiment folder of a run at leg num may
\* hold: copies of rstas.nc and rcf, links to the srf and NEMO restarts of
\* the leg (some to a folder that is gone), a NEMO restart file still
\* under the name NEMO wrote it with
TopStates(num) ==
    {r @@ c @@ sf @@ nm @@ st :
        r \in Maybe(<<Word("rstas.nc")>>, {RegFile(num, <<Word("rstas.nc")>>)}),
        c \in Maybe(<<Word("rcf")>>, {RegFile(num, <<Word("rcf")>>)}),
        sf \in Maybe(SrfName, {Link(num, SrfName), Link(0, SrfName)}),
        nm \in Maybe(DropTwoFields(NemoName(num)),
                     {Link(num, NemoName(num)), Link(0, NemoName(num))}),
        st \in UNION {Maybe(NemoName(k), {RegFile(k, NemoName(k))}) : k \in 1..num}}

\* the start of leg num: 1 January, or 29 February when the year has one
StartDates(num) ==
    {<<1990 + num - 1, 1, 1>>}
    \cup (IF IsLeap(1990 + num - 1) THEN {<<1990 + num - 1, 2, 29>>} ELSE {})

\* a backup taken when the run was at its last leg
BackupFolder ==
    ExpFolder(MaxRbLeg, <<1990 + MaxRbLeg - 1, 1, 1>>,
              (<<Word("rstas.nc")>> :> RegFile(MaxRbLeg, <<Word("rstas.nc")>>))
              @@ (SrfName :> Link(MaxRbLeg, SrfName)))

InitRollback ==
    /\ ReaderIdle
    /\ EofIdle
    /\ RsIdle
    /\ \E e \in {None} \cup UNION {{ExpFolder(num, d, t) : d \in StartDates(num),
                                                            t \in TopStates(num)} :
                                   num \in 1..MaxRbLeg},
          b \in {None, BackupFolder} :
         rbFs = [exp |-> e, backup |-> b]
    /\ rbArgs = NoRbArgs
    /\ rbOut = Unbound
    /\ rbLog = <<>>
    /\ rbSnap = <<>>

\* one run of the tool
RunRollback ==
    /\ rbOut = Unbound
    /\ \E a \in RbCallArgs :
         LET r == roll_back(rbFs, a)
         IN  /\ rbArgs' = a
             /\ rbOut' = r.out
             /\ rbFs' = r.fs
             /\ rbLog' = r.log
             /\ rbSnap' = rbFs
    /\ UNCHANGED <<prVars, avVars, eofVars, rsVars>>

NextRollback == RunRollback

SpecRollback == InitRollback /\ [][NextRollback]_vars

\* ------------------------------------------------------------------------
\* Properties of the roll-back tool
\* ------------------------------------------------------------------------
RbDone == rbOut.tag # "unbound"
\* the experiment folder the roll-back works on: the backup when --rerun
\* restored it
RbFolder == IF rbArgs.rerun THEN rbSnap.backup ELSE rbSnap.exp
\* the run got past the leg document
PastLegInfo == RbDone /\ Has(rbLog, "restart")

\* C18 (leg document): with leg L asked and a document recording num = N
\* and start = S, for L < N the document is rewritten with num = L and
\* start = S moved back N - L years (same month and day, 29 February
\* becoming 28 February outside leap years), its other entries unchanged;
\* for L = N the document is not rewritten.
C18_LegDocument ==
    PastLegInfo =>
        LET d0 == RbFolder.leginfo
            d1 == rbFs.exp.leginfo
            L == rbArgs.leg
        IN  /\ L < d0.num =>
                 /\ d1.num = L
                 /\ d1.start[1] = d0.start[1] - (d0.num - L)
                 /\ d1.start[2] = d0.start[2]
                 /\ d1.start[3] = (IF d0.start[2] = 2 /\ d0.start[3] = 29
                                      /\ ~IsLeap(d1.start[1])
                                   THEN 28 ELSE d0.start[3])
                 /\ d1.others = d0.others
                 /\ Has(rbLog, "dump")
            /\ L = d0.num => (d1 = d0 /\ ~Has(rbLog, "dump"))

\* two legs back
C18_Witness ==
    /\ PastLegInfo
    /\ rbOut = Str("done")
    /\ RbFolder.leginfo.num - rbArgs.leg = 2
    /\ rbFs.exp.leginfo.num = rbArgs.leg
    /\ rbFs.exp.leginfo.layout = "dumped"

\* C19 (restart files of the leg): after a roll-back to L <= N that ends
\* without error, whatever restart files and links the experiment folder
\* held before, it holds a regular file with the content of leg L for each
\* of rstas.nc, rstos.nc, rcf of restart/<L>, a link to the file of
\* restart/<L> for each srf000* file, and for each NEMO restart file a link
\* under the name without its first two '_'-separated fields.
C19_RestartOfLeg ==
    (RbDone /\ rbOut = Str("done")) =>
        LET L == rbArgs.leg
            top == rbFs.exp.top
        IN  \A name \in RbFolder.restart[ZFill(L, 3)] :
               /\ name \in OasisNames =>
                    (name \in DOMAIN top /\ top[name] = RegFile(L, name))
               /\ name = SrfName =>
                    (name \in DOMAIN top /\ top[name] = Link(L, name))
               /\ name = NemoName(L) =>
                    (DropTwoFields(name) \in DOMAIN top
                     /\ top[DropTwoFields(name)] = Link(L, name))

\* C20 (--rerun): when <exp>-backup exists, also when the experiment folder
\* exists already, the backup is copied into the experiment folder before
\* anything is removed and the roll-back goes on from it; when there is no
\* backup the tool exits with an error and has changed nothing.
C20_RerunFromBackup ==
    (RbDone /\ rbArgs.rerun) =>
        /\ rbSnap.backup # None =>
              /\ Len(rbLog) >= 2
              /\ rbLog[1] = Ev("copytree", "exp")
              /\ Has(rbLog, "clean")
              /\ rbOut # Err("FileExistsError")
        /\ rbSnap.backup = None =>
              /\ rbOut = Err("SystemExit")
              /\ rbFs = rbSnap
              /\ rbLog = <<>>

\* C23 (forward roll-back): a run that asks for a leg L greater than the
\* leg N of leginfo.yml ends with ValueError; leginfo.yml, the restart
\* folders and the output are as before, nothing was copied or linked into
\* the experiment folder; but every top-level entry the cleaning browser
\* matches and os.path.isfile accepts is gone, so that the folder differs
\* from what it was whenever it held such an entry.
C23_ForwardRollback ==
    (RbDone /\ Has(rbLog, "clean") /\ RbFolder # None
            /\ rbArgs.leg > RbFolder.leginfo.num) =>
        LET before == RbFolder
            after == rbFs.exp
            cleaned == {n \in DOMAIN before.top : MatchClean(n) /\ IsFile(before.top, n)}
        IN  /\ rbOut = Err("ValueError")
            /\ after.leginfo = before.leginfo
            /\ after.restart = before.restart
            /\ after.output = before.output
            /\ ~Has(rbLog, "dump")
            /\ ~Has(rbLog, "restart")
            /\ DOMAIN after.top = DOMAIN before.top \ cleaned
            /\ \A n \in DOMAIN after.top : after.top[n] = before.top[n]
            /\ cleaned # {} => after # before

\* a forward request on a folder that held restart files and a link that
\* leads nowhere: the files are gone, the link is still there
C23_Witness ==
    /\ RbDone /\ ~rbArgs.rerun
    /\ rbSnap.exp # None
    /\ rbArgs.leg > rbSnap.exp.leginfo.num
    /\ rbOut = Err("ValueError")
    /\ <<Word("rcf")>> \in DOMAIN rbSnap.exp.top
    /\ <<Word("rcf")>> \notin DOMAIN rbFs.exp.top
    /\ SrfName \in DOMAIN rbFs.exp.top
    /\ rbFs.exp.leginfo = rbSnap.exp.leginfo

\* ------------------------------------------------------------------------
\* The restart reader and its fallback rebuild (post_reader.py, lines 226-251)
\* ------------------------------------------------------------------------
\* years a call of reader_restart may name
MaxRsYears == 3

RsYears == 1990..(1990 + MaxRsYears - 1)
\* get_leg (osprey.utils.time): the leg of a year, the first year being leg 2
get_leg(year) == year - 1990 + 2
RsLegs == {get_leg(y) : y \in RsYears}

\* what the restart folder of a leg holds: the rebuilt file, a rebuilt file
\* that cannot be opened, only the per-processor fragments, or nothing
FolderStates == {"rebuilt", "broken", "fragments", "empty"}

RsArgs ==
    {[expname |-> "X1", startyear |-> y0, endyear |-> y1] :
        <<y0, y1>> \in {yy \in RsYears \X RsYears : yy[1] <= yy[2]}}

RsEv(op, what, out) == [op |-> op, what |-> what, out |-> out]

\* the first leg of start..end whose rebuilt file cannot be read, 0 if none
FirstUnread(fs, start, end) ==
    IF \A l \in start..end : fs[l] = "rebuilt" THEN 0
    ELSE CHOOSE l \in start..end :
            /\ fs[l] # "rebuilt"
            /\ \A k \in start..(l - 1) : fs[k] = "rebuilt"

\* reader_rebuilt (osprey.actions.reader): the rebuilt restart files of the
\* legs start..end as one dataset; FileNotFoundError when one is not there
reader_rebuilt(fs, expname, start, end) ==
    LET l == FirstUnread(fs, start, end)
    IN  IF l = 0 THEN [tag |-> "data", expname |-> expname, legs |-> start..end]
        ELSE IF fs[l] = "broken" THEN Err("OSError")
        ELSE Err("FileNotFoundError")

\* rebuilder (osprey.actions.rebuilder): assembles the rebuilt file of a leg
\* from its fragments
rebuilder(fs, expname, leg) ==
    IF fs[leg] = "fragments" THEN [fs EXCEPT ![leg] = "rebuilt"] ELSE fs

\* lines 226-237
RestartCall ==
    /\ rsPc = "idle"
    /\ rsOut = Unbound
    /\ \E a \in RsArgs : rsArgs' = a
    /\ rsPc' = "read"
    /\ UNCHANGED <<rsFs, rsLeg, rsOut, rsLog>>
    /\ UNCHANGED <<prVars, avVars, eofVars, rbVars>>

\* a slip: every exception of the first read starts the rebuild
RestartFirstRead_anyError ==
    /\ rsPc = "read"
    /\ LET start == get_leg(rsArgs.startyear)
           end == get_leg(rsArgs.endyear)
           data == reader_rebuilt(rsFs, rsArgs.expname, start, end)
       IN  /\ rsLog' = Append(rsLog, RsEv("reader_rebuilt", <<start, end>>, data))
           /\ IF ~IsErr(data)
                THEN rsOut' = data /\ rsPc' = "done" /\ rsLeg' = rsLeg
              ELSE rsOut' = rsOut /\ rsPc' = "rebuild" /\ rsLeg' = start
    /\ UNCHANGED <<rsFs, rsArgs>>
    /\ UNCHANGED <<prVars, avVars, eofVars, rbVars>>
\* lines 239-243: the first read; only FileNotFoundError is caught
RestartFirstRead ==
    /\ rsPc = "read"
    /\ LET start == get_leg(rsArgs.startyear)
           end == get_leg(rsArgs.endyear)
           data == reader_rebuilt(rsFs, rsArgs.expname, start, end)
       IN  /\ rsLog' = Append(rsLog, RsEv("reader_rebuilt", <<start, end>>, data))
           /\ IF ~IsErr(data)
                THEN rsOut' = data /\ rsPc' = "done" /\ rsLeg' = rsLeg
              ELSE IF data = Err("FileNotFoundError")
                THEN rsOut' = rsOut /\ rsPc' = "rebuild" /\ rsLeg' = start
              ELSE rsOut' = data /\ rsPc' = "done" /\ rsLeg' = rsLeg
    /\ UNCHANGED <<rsFs, rsArgs>>
    /\ UNCHANGED <<prVars, avVars, eofVars, rbVars>>

\* lines 246-247: one turn of the loop
RestartRebuild ==
    /\ rsPc = "rebuild"
    /\ rsLeg <= get_leg(rsArgs.endyear)
    /\ rsFs' = rebuilder(rsFs, rsArgs.expname, rsLeg)
    /\ rsLog' = Append(rsLog, RsEv("rebuilder", <<rsLeg>>, None))
    /\ rsLeg' = rsLeg + 1
    /\ UNCHANGED <<rsArgs, rsPc, rsOut>>
    /\ UNCHANGED <<prVars, avVars, eofVars, rbVars>>

\* lines 249-251: the second read, its outcome being the call's
RestartSecondRead ==
    /\ rsPc = "rebuild"
    /\ rsLeg > get_leg(rsArgs.endyear)
    /\ LET start == get_leg(rsArgs.startyear)
           end == get_leg(rsArgs.endyear)
           data == reader_rebuilt(rsFs, rsArgs.expname, start, end)
       IN  /\ rsLog' = Append(rsLog, RsEv("reader_rebuilt", <<start, end>>, data))
           /\ rsOut' = data
    /\ rsPc' = "done"
    /\ UNCHANGED <<rsFs, rsArgs, rsLeg>>
    /\ UNCHANGED <<prVars, avVars, eofVars, rbVars>>

InitRestart ==
    /\ ReaderIdle
    /\ EofIdle
    /\ RbIdle
    /\ rsFs \in [RsLegs -> FolderStates]
    /\ rsArgs = [expname |-> "", startyear |-> 0, endyear |-> 0]
    /\ rsPc = "idle"
    /\ rsLeg = 0
    /\ rsOut = Unbound
    /\ rsLog = <<>>

NextRestart ==
    \/ RestartCall
    \/ RestartFirstRead
    \/ RestartRebuild
    \/ RestartSecondRead

SpecRestart == InitRestart /\ [][NextRestart]_vars

\* ------------------------------------------------------------------------
\* Properties of the restart reader
\* ------------------------------------------------------------------------
\* the rebuilder calls logged so far
Rebuilds == SelectSeq(rsLog, LAMBDA e : e.op = "rebuilder")
\* the reads logged so far
Reads == SelectSeq(rsLog, LAMBDA e : e.op = "reader_rebuilt")

====
